---- MODULE Spec2Model ----
(***************************************************************************)
(* Model of mkcurl.h: the request descriptor and its setters, the response *)
(* record, the two engine callbacks (mkcurl_body_cb, mkcurl_debug_cb) and  *)
(* mkcurl_request_perform_nonnull, stepped one engine call at a time. The  *)
(* transport engine (cURL) is the environment: every engine call returns a *)
(* nondeterministically chosen code and value.                             *)
(***************************************************************************)
EXTENDS Integers, Sequences, FiniteSets, TLC

(***************************************************************************)
(* Bounds of the model.                                                    *)
(***************************************************************************)
\* width of the C type long, scaled down
LongBits == 6
\* number of request fields changed from their defaults (headers count one each)
MaxConfigured == 2
\* number of callback invocations the engine makes during one transaction
MaxEvents == 1
\* largest reading of the steady clock
MaxClock == 1
\* number of callback invocations in the specification of the callbacks alone
MaxCallbacks == 2

LONG_MAX == 2^(LongBits - 1) - 1
\* size_t is at least as wide as long on every ABI the code builds for
SIZE_MAX == 2^(LongBits + 1) - 1

\* (long)x for an integer x: keeps the low LongBits bits, two's complement
ToLong(x) == ((x + 2^(LongBits - 1)) % 2^LongBits) - 2^(LongBits - 1)
\* (size_t)x
ToSize(x) == x % (SIZE_MAX + 1)

(***************************************************************************)
(* CURLcode values the engine can return.                                  *)
(***************************************************************************)
CURLE_OK == "CURLE_OK"
CURLE_NOT_BUILT_IN == "CURLE_NOT_BUILT_IN"
CURLE_OUT_OF_MEMORY == "CURLE_OUT_OF_MEMORY"
CurlCodes == {CURLE_OK, CURLE_NOT_BUILT_IN, CURLE_OUT_OF_MEMORY}

\* long values of the engine's HTTP version enumeration
CURL_HTTP_VERSION_NONE == 0
CURL_HTTP_VERSION_1_0 == 1
CURL_HTTP_VERSION_1_1 == 2
CURL_HTTP_VERSION_2_0 == 3

\* a C pointer to a buffer: null, or the bytes it points at
NULLPTR == [isnull |-> TRUE, data |-> <<>>]
Ptr(d) == [isnull |-> FALSE, data |-> d]

NUL == "\\0"
LF == "\n"

VARIABLES
  req,                  \* the mkcurl_request
  res,                  \* the mkcurl_response of the running perform
  pc,                   \* "new", a step of perform, "performing", "returned", "aborted"
  calls,                \* the engine calls made so far, in order
  headers,              \* mkcurl_slist headers: the list headers.p points at
  connect_to_settings,  \* mkcurl_slist connect_to_settings
  handle,               \* the CURL handle: "none", "live", "cleaned"
  idx,                  \* position of the loop over req->headers
  clock,                \* last reading of std::chrono::steady_clock
  nev,                  \* callbacks invoked by the engine in this transaction
  cbret,                \* value returned by the last callback
  events,               \* the callback invocations the engine made, in order
  ret,                  \* what perform returned: "none" or "res"
  parked,               \* the transactions other than the one above: an
                        \* earlier one of this thread, or another thread's
  outcome               \* the last call of a public function that aborted
                        \* or returned a value: <<>> before any

vars == <<req, res, pc, calls, headers, connect_to_settings, handle, idx,
          clock, nev, cbret, events, ret, parked, outcome>>

(***************************************************************************)
(* struct mkcurl_request and struct mkcurl_response, as constructed.       *)
(***************************************************************************)
mkcurl_request_new_nonnull ==
  [ca_path |-> "", enable_http2 |-> FALSE, method |-> "GET", url |-> "",
   headers |-> <<>>, body |-> <<>>, timeout |-> 30, proxy_url |-> "",
   enable_fastopen |-> FALSE, follow_redir |-> FALSE, connect_to |-> ""]

mkcurl_response_new ==
  [error |-> CURLE_OK, redirect_url |-> "", status_code |-> 0, body |-> <<>>,
   bytes_sent |-> 0, bytes_recv |-> 0, logs |-> <<>>,
   request_headers |-> <<>>, response_headers |-> <<>>, certs |-> <<>>,
   content_type |-> "", http_version |-> ""]

\* number of request fields that differ from a new request
Configured(r) ==
    (IF r.ca_path # "" THEN 1 ELSE 0) + (IF r.enable_http2 THEN 1 ELSE 0)
  + (IF r.method # "GET" THEN 1 ELSE 0) + (IF r.url # "" THEN 1 ELSE 0)
  + Len(r.headers) + (IF r.body # <<>> THEN 1 ELSE 0)
  + (IF r.timeout # 30 THEN 1 ELSE 0) + (IF r.proxy_url # "" THEN 1 ELSE 0)
  + (IF r.enable_fastopen THEN 1 ELSE 0) + (IF r.follow_redir THEN 1 ELSE 0)
  + (IF r.connect_to # "" THEN 1 ELSE 0)

(***************************************************************************)
(* Inputs of the setters.                                                  *)
(***************************************************************************)
CaPaths == {"/etc/ssl/cert.pem"}
Urls == {"http://example.org/"}
HeaderLines == {"Content-Type: text/plain", "Accept: */*"}
ProxyUrls == {"socks5h://127.0.0.1:9050"}
ConnectIps == {"127.0.0.1"}
\* request bodies: three bytes with an embedded NUL, LONG_MAX bytes and
\* LONG_MAX + 1 bytes
Bodies == {<<"a", NUL, "b">>,
           [k \in 1..LONG_MAX |-> "x"], [k \in 1..(LONG_MAX + 1) |-> "x"]}
\* int64_t timeouts: negative, zero, around LONG_MAX and beyond the width of long
TimeoutInputs == {-1, 0, LONG_MAX - 2, LONG_MAX, LONG_MAX + 1, 2 * LONG_MAX + 3}

(***************************************************************************)
(* The setters. Each is called on the request before perform.              *)
(***************************************************************************)
SetField(r) ==
  /\ pc = "new"
  /\ Configured(r) <= MaxConfigured
  /\ req' = r
  /\ UNCHANGED <<res, pc, calls, headers, connect_to_settings, handle, idx,
                 clock, nev, cbret, events, ret, parked, outcome>>

mkcurl_request_set_ca_bundle_path_v2(p) == SetField([req EXCEPT !.ca_path = p])

mkcurl_request_enable_http2_v2 == SetField([req EXCEPT !.enable_http2 = TRUE])

mkcurl_request_set_method_post_v2 == SetField([req EXCEPT !.method = "POST"])

mkcurl_request_set_method_put_v2 == SetField([req EXCEPT !.method = "PUT"])

mkcurl_request_set_url_v2(u) == SetField([req EXCEPT !.url = u])

mkcurl_request_add_header_v2(h) ==
  SetField([req EXCEPT !.headers = Append(@, h)])

mkcurl_request_set_body_binary_v3(b) == SetField([req EXCEPT !.body = b])

\* faulty variant of mkcurl_request_set_timeout_v2: no upper clamp
mkcurl_request_set_timeout_wrapping(timeout) ==
  SetField([req EXCEPT !.timeout = ToLong(IF timeout < 0 THEN 0 ELSE timeout)])

mkcurl_request_set_timeout_v2(timeout) ==
  SetField([req EXCEPT !.timeout =
              ToLong(IF timeout < 0 THEN 0
                     ELSE IF timeout < LONG_MAX THEN ToLong(timeout)
                     ELSE LONG_MAX)])

mkcurl_request_set_proxy_url_v2(u) == SetField([req EXCEPT !.proxy_url = u])

mkcurl_request_enable_tcp_fastopen ==
  SetField([req EXCEPT !.enable_fastopen = TRUE])

mkcurl_request_set_connect_to(ip) ==
  SetField([req EXCEPT !.connect_to = "::" \o ip \o ":"])

mkcurl_request_enable_follow_redirect_v2 ==
  SetField([req EXCEPT !.follow_redir = TRUE])

(***************************************************************************)
(* mkcurl_log: "[" now "] " line "\n" appended to logs. logs is a sequence *)
(* of tokens: bytes of engine payloads and the fixed strings of the code.  *)
(***************************************************************************)
mkcurl_log(logs, line, now) ==
  logs \o <<"[", ToString(now), "] ">> \o line \o <<LF>>

(***************************************************************************)
(* mkcurl_body_cb: the value it returns and the body it leaves, for        *)
(* non-null ptr and userdata.                                              *)
(***************************************************************************)
\* faulty variant of BodyCbRejects: the product is computed in size_t first
BodyCbRejectsWrapped(size, nmemb) ==
  nmemb > 0 /\ ToSize(size * nmemb) > SIZE_MAX

BodyCbRejects(size, nmemb) == nmemb > 0 /\ size > SIZE_MAX \div nmemb

\* faulty variant of BodyCbAborts: the pointers are checked first
BodyCbAbortsFirst(ptr, size, nmemb, userdata) ==
  ptr.isnull \/ userdata = "NULL"

BodyCbAborts(ptr, size, nmemb, userdata) ==
  /\ nmemb > 0
  /\ ~BodyCbRejects(size, nmemb)
  /\ (ptr.isnull \/ userdata = "NULL")

\* faulty variant of BodyCbReturn: the number of bytes, not of elements
BodyCbReturnBytes(size, nmemb) ==
  IF nmemb <= 0 THEN 0
  ELSE IF BodyCbRejects(size, nmemb) THEN 0 ELSE ToSize(size * nmemb)

BodyCbReturn(size, nmemb) ==
  IF nmemb <= 0 THEN 0 ELSE IF BodyCbRejects(size, nmemb) THEN 0 ELSE nmemb

BodyCbBody(body, ptr, size, nmemb) ==
  IF nmemb <= 0 \/ BodyCbRejects(size, nmemb) THEN body
  ELSE body \o SubSeq(ptr.data, 1, ToSize(size * nmemb))

\* one invocation of a callback as the engine sees it: the arguments, whether
\* the callback aborted the process and, when it did not, what it returned
Event(cb, type, data, size, nmemb, userdata, ts, aborted, r) ==
  [cb |-> cb, type |-> type, data |-> data, size |-> size, nmemb |-> nmemb,
   userdata |-> userdata, ts |-> ts, aborted |-> aborted, ret |-> r]

\* faulty variant of mkcurl_body_cb: the elements taken are also counted
\* as bytes received
mkcurl_body_cb_counting(ptr, size, nmemb, userdata) ==
  /\ pc = "performing"
  /\ nev' = nev + 1
  /\ IF BodyCbAborts(ptr, size, nmemb, userdata)
     THEN /\ pc' = "aborted"
          /\ events' = Append(events, Event("mkcurl_body_cb", "", ptr, size, nmemb,
                                            userdata, <<>>, TRUE, 0))
          /\ UNCHANGED <<res, cbret>>
     ELSE /\ res' = [res EXCEPT !.body = BodyCbBody(@, ptr, size, nmemb),
                             !.bytes_recv = @ + BodyCbReturn(size, nmemb)]
          /\ cbret' = BodyCbReturn(size, nmemb)
          /\ events' = Append(events, Event("mkcurl_body_cb", "", ptr, size, nmemb,
                                            userdata, <<>>, FALSE,
                                            BodyCbReturn(size, nmemb)))
          /\ pc' = pc
  /\ UNCHANGED <<req, calls, headers, connect_to_settings, handle, idx, clock,
                 ret, parked, outcome>>

mkcurl_body_cb(ptr, size, nmemb, userdata) ==
  /\ pc = "performing"
  /\ nev' = nev + 1
  /\ IF BodyCbAborts(ptr, size, nmemb, userdata)
     THEN /\ pc' = "aborted"
          /\ events' = Append(events, Event("mkcurl_body_cb", "", ptr, size, nmemb,
                                            userdata, <<>>, TRUE, 0))
          /\ UNCHANGED <<res, cbret>>
     ELSE /\ res' = [res EXCEPT !.body = BodyCbBody(@, ptr, size, nmemb)]
          /\ cbret' = BodyCbReturn(size, nmemb)
          /\ events' = Append(events, Event("mkcurl_body_cb", "", ptr, size, nmemb,
                                            userdata, <<>>, FALSE,
                                            BodyCbReturn(size, nmemb)))
          /\ pc' = pc
  /\ UNCHANGED <<req, calls, headers, connect_to_settings, handle, idx, clock,
                 ret, parked, outcome>>

(***************************************************************************)
(* mkcurl_debug_cb.                                                        *)
(***************************************************************************)
InfoTypes == {"CURLINFO_TEXT", "CURLINFO_HEADER_IN", "CURLINFO_HEADER_OUT",
              "CURLINFO_DATA_IN", "CURLINFO_DATA_OUT", "CURLINFO_SSL_DATA_IN",
              "CURLINFO_SSL_DATA_OUT", "CURLINFO_END"}

\* position of the first line feed of s, 0 when it has none
FirstLF(s) ==
  IF \E i \in 1..Len(s) : s[i] = LF
  THEN CHOOSE i \in 1..Len(s) : s[i] = LF /\ \A j \in 1..(i - 1) : s[j] # LF
  ELSE 0

\* faulty variant of GetLines: a line is kept only if a line feed ends it
RECURSIVE GetLinesTerminated(_)
GetLinesTerminated(str) ==
  IF str = <<>> \/ FirstLF(str) = 0 THEN <<>>
  ELSE <<SubSeq(str, 1, FirstLF(str) - 1)>>
         \o GetLinesTerminated(SubSeq(str, FirstLF(str) + 1, Len(str)))

\* the lines the loop `while (std::getline(ss, line, '\n'))` yields for str
RECURSIVE GetLines(_)
GetLines(str) ==
  IF str = <<>> THEN <<>>
  ELSE IF FirstLF(str) = 0 THEN <<str>>
  ELSE <<SubSeq(str, 1, FirstLF(str) - 1)>>
         \o GetLines(SubSeq(str, FirstLF(str) + 1, Len(str)))

\* faulty variant of LogLines: no space between the prefix and the line
RECURSIVE LogLinesTight(_, _, _, _, _)
LogLinesTight(logs, prefix, lines, ts, k) ==
  IF k > Len(lines) THEN logs
  ELSE LogLinesTight(mkcurl_log(logs,
                                (IF prefix # "" THEN <<prefix>> ELSE <<>>)
                                  \o lines[k],
                                ts[k]),
                     prefix, lines, ts, k + 1)

\* the lambda log_many_lines, the k-th line stamped with the reading ts[k]
RECURSIVE LogLines(_, _, _, _, _)
LogLines(logs, prefix, lines, ts, k) ==
  IF k > Len(lines) THEN logs
  ELSE LogLines(mkcurl_log(logs,
                           (IF prefix # "" THEN <<prefix, " ">> ELSE <<>>)
                             \o lines[k],
                           ts[k]),
                prefix, lines, ts, k + 1)

log_many_lines(logs, prefix, str, ts) ==
  LogLines(logs, prefix, GetLines(str), ts, 1)

\* the text the first switch of mkcurl_debug_cb hands to log_many_lines
DebugPrefix(type) ==
  CASE type = "CURLINFO_TEXT" -> ""
    [] type = "CURLINFO_HEADER_IN" -> "<"
    [] type = "CURLINFO_DATA_IN" -> "<data:"
    [] type = "CURLINFO_SSL_DATA_IN" -> "<tls_data:"
    [] type = "CURLINFO_HEADER_OUT" -> ">"
    [] type = "CURLINFO_DATA_OUT" -> ">data:"
    [] type = "CURLINFO_SSL_DATA_OUT" -> ">tls_data:"
    [] OTHER -> ""

\* faulty variant of DebugText: the payload of every event is written
DebugTextEcho(type, data, size) ==
  IF type = "CURLINFO_END" THEN <<>> ELSE SubSeq(data, 1, size)

DebugText(type, data, size) ==
  IF type \in {"CURLINFO_TEXT", "CURLINFO_HEADER_IN", "CURLINFO_HEADER_OUT"}
  THEN SubSeq(data, 1, size)
  ELSE IF type = "CURLINFO_END" THEN <<>>
  ELSE <<ToString(size)>>

\* faulty variant of DebugCbHeaders: the buffer is read up to its end
DebugCbHeadersWhole(hdrs, data, size) == hdrs \o data

\* the first switch: what a header event appends to the headers field hdrs
\* that its case names
DebugCbHeaders(hdrs, data, size) == hdrs \o SubSeq(data, 1, size)

\* faulty variant of DebugCbBytes: TLS records are not counted
DebugCbBytesNoTls(bytes, type, size, counted) ==
  IF type \in counted \ {"CURLINFO_SSL_DATA_IN", "CURLINFO_SSL_DATA_OUT"}
  THEN bytes + size ELSE bytes

\* the second switch: the counter the cases named in counted add size to
DebugCbBytes(bytes, type, size, counted) ==
  IF type \in counted THEN bytes + size ELSE bytes

\* the response record mkcurl_debug_cb leaves, for non-null data and userptr
DebugCbRes(r, type, data, size, ts) ==
  [r EXCEPT
     !.logs = IF type = "CURLINFO_END" THEN @
              ELSE log_many_lines(@, DebugPrefix(type),
                                  DebugText(type, data, size), ts),
     !.response_headers =
        IF type = "CURLINFO_HEADER_IN" THEN DebugCbHeaders(@, data, size) ELSE @,
     !.request_headers =
        IF type = "CURLINFO_HEADER_OUT" THEN DebugCbHeaders(@, data, size) ELSE @,
     !.bytes_recv =
        DebugCbBytes(@, type, size,
                     {"CURLINFO_HEADER_IN", "CURLINFO_DATA_IN",
                      "CURLINFO_SSL_DATA_IN"}),
     !.bytes_sent =
        DebugCbBytes(@, type, size,
                     {"CURLINFO_HEADER_OUT", "CURLINFO_DATA_OUT",
                      "CURLINFO_SSL_DATA_OUT"})]

\* faulty variant of DebugCbAborts: the end-of-transaction marker returns
\* before the pointers are looked at
DebugCbAbortsUnlessEnd(type, data, userptr) ==
  type # "CURLINFO_END" /\ (data.isnull \/ userptr = "NULL")

\* the first statement of mkcurl_debug_cb
DebugCbAborts(type, data, userptr) == data.isnull \/ userptr = "NULL"

\* the readings of the steady clock n successive mkcurl_log calls can take
Stamps(n) ==
  {ts \in [1..n -> clock..MaxClock] :
     \A i \in 1..n, j \in 1..n : i <= j => ts[i] <= ts[j]}

\* faulty variant of mkcurl_debug_cb: the record written is the one of the
\* other transaction, when there is one
mkcurl_debug_cb_shared(type, data, size, userptr) ==
  /\ pc = "performing"
  /\ nev' = nev + 1
  /\ IF data.isnull \/ userptr = "NULL"
     THEN /\ pc' = "aborted"
          /\ events' = Append(events, Event("mkcurl_debug_cb", type, data, size, 0,
                                            userptr, <<>>, TRUE, 0))
          /\ UNCHANGED <<res, clock, cbret, parked>>
     ELSE LET n == IF type = "CURLINFO_END" THEN 0
                   ELSE Len(GetLines(DebugText(type, data.data, size)))
          IN \E ts \in Stamps(n) :
               /\ IF parked = <<>>
                  THEN /\ res' = DebugCbRes(res, type, data.data, size, ts)
                       /\ parked' = parked
                  ELSE /\ res' = res
                       /\ parked' = [parked EXCEPT ![1].res =
                                       DebugCbRes(@, type, data.data, size, ts)]
               /\ clock' = IF n = 0 THEN clock ELSE ts[n]
               /\ cbret' = 0
               /\ events' = Append(events, Event("mkcurl_debug_cb", type, data, size,
                                                 0, userptr, ts, FALSE, 0))
               /\ pc' = pc
  /\ UNCHANGED <<req, calls, headers, connect_to_settings, handle, idx, ret,
                 outcome>>

mkcurl_debug_cb(type, data, size, userptr) ==
  /\ pc = "performing"
  /\ nev' = nev + 1
  /\ IF DebugCbAborts(type, data, userptr)
     THEN /\ pc' = "aborted"
          /\ events' = Append(events, Event("mkcurl_debug_cb", type, data, size, 0,
                                            userptr, <<>>, TRUE, 0))
          /\ UNCHANGED <<res, clock, cbret>>
     ELSE LET n == IF type = "CURLINFO_END" THEN 0
                   ELSE Len(GetLines(DebugText(type, data.data, size)))
          IN \E ts \in Stamps(n) :
               /\ res' = DebugCbRes(res, type, data.data, size, ts)
               /\ clock' = IF n = 0 THEN clock ELSE ts[n]
               /\ cbret' = 0
               /\ events' = Append(events, Event("mkcurl_debug_cb", type, data, size,
                                                 0, userptr, ts, FALSE, 0))
               /\ pc' = pc
  /\ UNCHANGED <<req, calls, headers, connect_to_settings, handle, idx, ret,
                 parked, outcome>>

(***************************************************************************)
(* mkcurl_request_perform_nonnull. pc names the statement that makes the   *)
(* next engine call; Steps is the order of the statements in the function. *)
(***************************************************************************)
\* faulty variant of Steps: the URL is set after the body collector
StepsUrlLate ==
  <<"curl_easy_init", "slist_headers", "slist_connect_to",
    "CURLOPT_CONNECT_TO", "CURLOPT_TCP_FASTOPEN", "CURLOPT_CAINFO",
    "CURLOPT_HTTP_VERSION", "slist_expect", "CURLOPT_POST",
    "CURLOPT_POSTFIELDS", "body_size", "CURLOPT_POSTFIELDSIZE",
    "CURLOPT_CUSTOMREQUEST", "CURLOPT_HTTPHEADER",
    "CURLOPT_WRITEFUNCTION", "CURLOPT_WRITEDATA", "CURLOPT_URL",
    "CURLOPT_NOSIGNAL",
    "CURLOPT_TIMEOUT", "CURLOPT_DEBUGFUNCTION", "CURLOPT_DEBUGDATA",
    "CURLOPT_VERBOSE", "CURLOPT_PROXY", "CURLOPT_FOLLOWLOCATION",
    "CURLOPT_CERTINFO", "curl_easy_perform", "CURLINFO_RESPONSE_CODE",
    "CURLINFO_REDIRECT_URL", "CURLINFO_CERTINFO", "CURLINFO_CONTENT_TYPE",
    "CURLINFO_HTTP_VERSION", "success">>

Steps ==
  <<"curl_easy_init", "slist_headers", "slist_connect_to",
    "CURLOPT_CONNECT_TO", "CURLOPT_TCP_FASTOPEN", "CURLOPT_CAINFO",
    "CURLOPT_HTTP_VERSION", "slist_expect", "CURLOPT_POST",
    "CURLOPT_POSTFIELDS", "body_size", "CURLOPT_POSTFIELDSIZE",
    "CURLOPT_CUSTOMREQUEST", "CURLOPT_HTTPHEADER", "CURLOPT_URL",
    "CURLOPT_WRITEFUNCTION", "CURLOPT_WRITEDATA", "CURLOPT_NOSIGNAL",
    "CURLOPT_TIMEOUT", "CURLOPT_DEBUGFUNCTION", "CURLOPT_DEBUGDATA",
    "CURLOPT_VERBOSE", "CURLOPT_PROXY", "CURLOPT_FOLLOWLOCATION",
    "CURLOPT_CERTINFO", "curl_easy_perform", "CURLINFO_RESPONSE_CODE",
    "CURLINFO_REDIRECT_URL", "CURLINFO_CERTINFO", "CURLINFO_CONTENT_TYPE",
    "CURLINFO_HTTP_VERSION", "success">>

StepIndex(label) == CHOOSE i \in 1..Len(Steps) : Steps[i] = label

SetoptSteps ==
  {Steps[i] : i \in StepIndex("CURLOPT_CONNECT_TO")..StepIndex("CURLOPT_CERTINFO")}
    \ {"slist_expect", "body_size"}

GetinfoSteps ==
  {Steps[i] : i \in StepIndex("CURLINFO_RESPONSE_CODE")..StepIndex("CURLINFO_HTTP_VERSION")}

\* faulty variant of Applies: a timeout of zero is not handed to the engine
AppliesPositiveTimeout(label, h) ==
  CASE label \in {"slist_connect_to", "CURLOPT_CONNECT_TO"} -> req.connect_to # ""
    [] label = "CURLOPT_TCP_FASTOPEN" -> req.enable_fastopen
    [] label = "CURLOPT_CAINFO" -> req.ca_path # ""
    [] label = "CURLOPT_HTTP_VERSION" -> req.enable_http2
    [] label \in {"slist_expect", "CURLOPT_POST", "CURLOPT_POSTFIELDS",
                  "body_size", "CURLOPT_POSTFIELDSIZE"} ->
         req.method \in {"POST", "PUT"}
    [] label = "CURLOPT_CUSTOMREQUEST" -> req.method = "PUT"
    [] label = "CURLOPT_HTTPHEADER" -> h # <<>>
    [] label = "CURLOPT_TIMEOUT" -> req.timeout > 0
    [] label = "CURLOPT_PROXY" -> req.proxy_url # ""
    [] label = "CURLOPT_FOLLOWLOCATION" -> req.follow_redir
    [] label = "slist_headers" -> req.headers # <<>>
    [] OTHER -> TRUE

\* the condition guarding the statement `label`, h being the list headers.p
Applies(label, h) ==
  CASE label \in {"slist_connect_to", "CURLOPT_CONNECT_TO"} -> req.connect_to # ""
    [] label = "CURLOPT_TCP_FASTOPEN" -> req.enable_fastopen
    [] label = "CURLOPT_CAINFO" -> req.ca_path # ""
    [] label = "CURLOPT_HTTP_VERSION" -> req.enable_http2
    [] label \in {"slist_expect", "CURLOPT_POST", "CURLOPT_POSTFIELDS",
                  "body_size", "CURLOPT_POSTFIELDSIZE"} ->
         req.method \in {"POST", "PUT"}
    [] label = "CURLOPT_CUSTOMREQUEST" -> req.method = "PUT"
    [] label = "CURLOPT_HTTPHEADER" -> h # <<>>
    [] label = "CURLOPT_TIMEOUT" -> req.timeout >= 0
    [] label = "CURLOPT_PROXY" -> req.proxy_url # ""
    [] label = "CURLOPT_FOLLOWLOCATION" -> req.follow_redir
    [] label = "slist_headers" -> req.headers # <<>>
    [] OTHER -> TRUE

\* faulty variant of NextStep: the statement setting CURLOPT_VERBOSE is
\* left out
NextStepPastVerbose(label, h) ==
  LET later == {k \in (StepIndex(label) + 1)..Len(Steps) :
                  Applies(Steps[k], h) /\ Steps[k] # "CURLOPT_VERBOSE"}
  IN Steps[CHOOSE k \in later : \A m \in later : k <= m]

\* the first statement after `label` whose guard holds
NextStep(label, h) ==
  LET later == {k \in (StepIndex(label) + 1)..Len(Steps) : Applies(Steps[k], h)}
  IN Steps[CHOOSE k \in later : \A m \in later : k <= m]

\* faulty variant of PostFieldSize: the length strlen finds
PostFieldSizeStrlen(body) ==
  IF \E i \in 1..Len(body) : body[i] = NUL
  THEN (CHOOSE i \in 1..Len(body) :
          body[i] = NUL /\ \A j \in 1..(i - 1) : body[j] # NUL) - 1
  ELSE Len(body)

\* (long)req->body.size()
PostFieldSize(body) == ToLong(Len(body))

\* the argument handed to curl_easy_setopt for each option
SetoptArg(opt) ==
  CASE opt = "CURLOPT_CONNECT_TO" -> connect_to_settings
    [] opt = "CURLOPT_TCP_FASTOPEN" -> 1
    [] opt = "CURLOPT_CAINFO" -> req.ca_path
    [] opt = "CURLOPT_HTTP_VERSION" -> CURL_HTTP_VERSION_2_0
    [] opt = "CURLOPT_POST" -> 1
    [] opt = "CURLOPT_POSTFIELDS" -> req.body
    [] opt = "CURLOPT_POSTFIELDSIZE" -> PostFieldSize(req.body)
    [] opt = "CURLOPT_CUSTOMREQUEST" -> "PUT"
    [] opt = "CURLOPT_HTTPHEADER" -> headers
    [] opt = "CURLOPT_URL" -> req.url
    [] opt = "CURLOPT_WRITEFUNCTION" -> "mkcurl_body_cb"
    [] opt = "CURLOPT_WRITEDATA" -> "res"
    [] opt = "CURLOPT_NOSIGNAL" -> 1
    [] opt = "CURLOPT_TIMEOUT" -> req.timeout
    [] opt = "CURLOPT_DEBUGFUNCTION" -> "mkcurl_debug_cb"
    [] opt = "CURLOPT_DEBUGDATA" -> "res"
    [] opt = "CURLOPT_VERBOSE" -> 1
    [] opt = "CURLOPT_PROXY" -> req.proxy_url
    [] opt = "CURLOPT_FOLLOWLOCATION" -> 1
    [] opt = "CURLOPT_CERTINFO" -> 1

\* the line logged when the option is rejected
SetoptMsg(opt) ==
  IF opt = "CURLOPT_POSTFIELDSIZE"
  THEN "curl_easy_setopt(MKCURLOPT_POSTFIELDSIZE) failed"
  ELSE "curl_easy_setopt(" \o opt \o ") failed"

Call(api, opt, arg, r) == [api |-> api, opt |-> opt, arg |-> arg, ret |-> r]

\* what curl_slist_append returns: the grown list, or NULL
SlistRet(ok) == IF ok THEN "list" ELSE "NULL"

\* the destructors that run when perform returns from the statement `label`:
\* connect_to_settings, headers and handle, in reverse order of declaration
Destructors(label, h, c, hnd) ==
    (IF StepIndex(label) >= StepIndex("slist_connect_to")
     THEN <<Call("curl_slist_free_all", "connect_to_settings", c, "")>>
     ELSE <<>>)
  \o (IF StepIndex(label) >= StepIndex("slist_headers")
      THEN <<Call("curl_slist_free_all", "headers", h, "")>>
      ELSE <<>>)
  \o (IF hnd = "live" THEN <<Call("curl_easy_cleanup", "", "", "")>> ELSE <<>>)

\* faulty variant of Return: the record is dropped and null is returned
ReturnAbsent(r, cs, label, h, c, hnd) ==
  /\ res' = r
  /\ calls' = cs \o Destructors(label, h, c, hnd)
  /\ handle' = IF hnd = "live" THEN "cleaned" ELSE hnd
  /\ pc' = "returned"
  /\ ret' = "none"

\* return res.release() from the statement `label`, r being the record and cs
\* the engine calls made up to there
Return(r, cs, label, h, c, hnd) ==
  /\ res' = r
  /\ calls' = cs \o Destructors(label, h, c, hnd)
  /\ handle' = IF hnd = "live" THEN "cleaned" ELSE hnd
  /\ pc' = "returned"
  /\ ret' = "res"

\* faulty variant of LogAndReturn: the return is not logged
ReturnSilently(r, msg, cs, label, h, c, hnd) ==
  /\ clock' = clock
  /\ Return(r, cs, label, h, c, hnd)

\* mkcurl_log(res->logs, msg) followed by return res.release()
LogAndReturn(r, msg, cs, label, h, c, hnd) ==
  \E now \in clock..MaxClock :
    /\ clock' = now
    /\ Return([r EXCEPT !.logs = mkcurl_log(@, <<msg>>, now)], cs, label, h, c, hnd)

\* faulty variant of PerformEasyInit: a null handle is not noticed
PerformEasyInitUnchecked ==
  /\ pc = "new"
  /\ \E h \in {"live", "none"} :
       /\ res' = mkcurl_response_new
       /\ calls' = Append(calls, Call("curl_easy_init", "", "", h))
       /\ handle' = h
       /\ idx' = 1
       /\ pc' = NextStep("curl_easy_init", headers)
       /\ UNCHANGED <<clock, ret>>
  /\ UNCHANGED <<req, headers, connect_to_settings, nev, cbret, events, parked, outcome>>

\* faulty variant of PerformEasyInit: the record of the previous call is used
PerformEasyInitKeepsRecord ==
  /\ pc = "new"
  /\ \E h \in {"live", "none"} :
       LET cs == Append(calls, Call("curl_easy_init", "", "", h))
       IN IF h = "none"
          THEN /\ LogAndReturn([res EXCEPT !.error = CURLE_OUT_OF_MEMORY],
                               "curl_easy_init() failed", cs, "curl_easy_init",
                               headers, connect_to_settings, h)
               /\ UNCHANGED idx
          ELSE /\ res' = res
               /\ calls' = cs
               /\ handle' = h
               /\ idx' = 1
               /\ pc' = NextStep("curl_easy_init", headers)
               /\ UNCHANGED <<clock, ret>>
  /\ UNCHANGED <<req, headers, connect_to_settings, nev, cbret, events, parked, outcome>>

\* entry of perform up to the check of the handle curl_easy_init returned
PerformEasyInit ==
  /\ pc = "new"
  /\ \E h \in {"live", "none"} :
       LET cs == Append(calls, Call("curl_easy_init", "", "", h))
       IN IF h = "none"
          THEN /\ LogAndReturn([mkcurl_response_new EXCEPT !.error = CURLE_OUT_OF_MEMORY],
                               "curl_easy_init() failed", cs, "curl_easy_init",
                               headers, connect_to_settings, h)
               /\ UNCHANGED idx
          ELSE /\ res' = mkcurl_response_new
               /\ calls' = cs
               /\ handle' = h
               /\ idx' = 1
               /\ pc' = NextStep("curl_easy_init", headers)
               /\ UNCHANGED <<clock, ret>>
  /\ UNCHANGED <<req, headers, connect_to_settings, nev, cbret, events, parked, outcome>>

\* faulty variant of SlistAppendHeader: a null list is not noticed
SlistAppendHeaderUnchecked ==
  /\ pc = "slist_headers"
  /\ \E ok \in BOOLEAN :
       /\ headers' = IF ok THEN Append(headers, req.headers[idx]) ELSE <<>>
       /\ calls' = Append(calls, Call("curl_slist_append", "headers",
                                      req.headers[idx], SlistRet(ok)))
       /\ idx' = idx + 1
       /\ pc' = IF idx < Len(req.headers) THEN pc
                ELSE NextStep(pc, IF ok THEN Append(headers, req.headers[idx])
                                  ELSE <<>>)
       /\ UNCHANGED <<res, handle, clock, ret>>
  /\ UNCHANGED <<req, connect_to_settings, nev, cbret, events, parked, outcome>>

\* one turn of `for (auto &s : req->headers)`
SlistAppendHeader ==
  /\ pc = "slist_headers"
  /\ \E ok \in BOOLEAN :
       LET cs == Append(calls, Call("curl_slist_append", "headers",
                                    req.headers[idx], SlistRet(ok)))
       IN IF ~ok
          THEN /\ headers' = <<>>
               /\ LogAndReturn([res EXCEPT !.error = CURLE_OUT_OF_MEMORY],
                               "curl_slist_append() failed", cs, pc,
                               <<>>, connect_to_settings, handle)
               /\ UNCHANGED idx
          ELSE /\ headers' = Append(headers, req.headers[idx])
               /\ calls' = cs
               /\ idx' = idx + 1
               /\ pc' = IF idx < Len(req.headers) THEN pc
                        ELSE NextStep(pc, Append(headers, req.headers[idx]))
               /\ UNCHANGED <<res, handle, clock, ret>>
  /\ UNCHANGED <<req, connect_to_settings, nev, cbret, events, parked, outcome>>

\* faulty variant of SlistAppendConnectTo: a failed append keeps the code
\* the record already holds
SlistAppendConnectToKeepsCode ==
  /\ pc = "slist_connect_to"
  /\ \E ok \in BOOLEAN :
       LET cs == Append(calls, Call("curl_slist_append", "connect_to_settings",
                                    req.connect_to, SlistRet(ok)))
       IN IF ~ok
          THEN /\ connect_to_settings' = <<>>
               /\ LogAndReturn(res, "curl_slist_append() failed", cs, pc,
                               headers, <<>>, handle)
          ELSE /\ connect_to_settings' = Append(connect_to_settings, req.connect_to)
               /\ calls' = cs
               /\ pc' = NextStep(pc, headers)
               /\ UNCHANGED <<res, handle, clock, ret>>
  /\ UNCHANGED <<req, headers, idx, nev, cbret, events, parked, outcome>>

\* connect_to_settings.p = MKCURL_SLIST_APPEND(..., req->connect_to.c_str())
SlistAppendConnectTo ==
  /\ pc = "slist_connect_to"
  /\ \E ok \in BOOLEAN :
       LET cs == Append(calls, Call("curl_slist_append", "connect_to_settings",
                                    req.connect_to, SlistRet(ok)))
       IN IF ~ok
          THEN /\ connect_to_settings' = <<>>
               /\ LogAndReturn([res EXCEPT !.error = CURLE_OUT_OF_MEMORY],
                               "curl_slist_append() failed", cs, pc,
                               headers, <<>>, handle)
          ELSE /\ connect_to_settings' = Append(connect_to_settings, req.connect_to)
               /\ calls' = cs
               /\ pc' = NextStep(pc, headers)
               /\ UNCHANGED <<res, handle, clock, ret>>
  /\ UNCHANGED <<req, headers, idx, nev, cbret, events, parked, outcome>>

\* faulty variant of SlistAppendExpect: the entry goes to the front
SlistAppendExpectFirst ==
  /\ pc = "slist_expect"
  /\ \E ok \in BOOLEAN :
       LET cs == Append(calls, Call("curl_slist_append", "headers", "Expect:",
                                    SlistRet(ok)))
       IN IF ~ok
          THEN /\ headers' = <<>>
               /\ LogAndReturn([res EXCEPT !.error = CURLE_OUT_OF_MEMORY],
                               "curl_slist_append() failed", cs, pc,
                               <<>>, connect_to_settings, handle)
          ELSE /\ headers' = <<"Expect:">> \o headers
               /\ calls' = cs
               /\ pc' = NextStep(pc, <<"Expect:">> \o headers)
               /\ UNCHANGED <<res, handle, clock, ret>>
  /\ UNCHANGED <<req, connect_to_settings, idx, nev, cbret, events, parked, outcome>>

\* headers.p = MKCURL_SLIST_APPEND(headers.p, "Expect:")
SlistAppendExpect ==
  /\ pc = "slist_expect"
  /\ \E ok \in BOOLEAN :
       LET cs == Append(calls, Call("curl_slist_append", "headers", "Expect:",
                                    SlistRet(ok)))
       IN IF ~ok
          THEN /\ headers' = <<>>
               /\ LogAndReturn([res EXCEPT !.error = CURLE_OUT_OF_MEMORY],
                               "curl_slist_append() failed", cs, pc,
                               <<>>, connect_to_settings, handle)
          ELSE /\ headers' = Append(headers, "Expect:")
               /\ calls' = cs
               /\ pc' = NextStep(pc, Append(headers, "Expect:"))
               /\ UNCHANGED <<res, handle, clock, ret>>
  /\ UNCHANGED <<req, connect_to_settings, idx, nev, cbret, events, parked, outcome>>

\* faulty variant of EasySetopt: the failure branch does not return
EasySetoptKeepsGoing(opt) ==
  /\ pc = opt
  /\ \E code \in CurlCodes :
       /\ res' = [res EXCEPT !.error = code]
       /\ calls' = Append(calls, Call("curl_easy_setopt", opt, SetoptArg(opt), code))
       /\ pc' = NextStep(pc, headers)
       /\ UNCHANGED <<handle, clock, ret>>
  /\ UNCHANGED <<req, headers, connect_to_settings, idx, nev, cbret, events, parked, outcome>>

\* if ((res->error = MKCURL_EASY_SETOPT(handle, opt, arg)) != CURLE_OK) {...}
EasySetopt(opt) ==
  /\ pc = opt
  /\ \E code \in CurlCodes :
       LET cs == Append(calls, Call("curl_easy_setopt", opt, SetoptArg(opt), code))
       IN IF code # CURLE_OK
          THEN LogAndReturn([res EXCEPT !.error = code], SetoptMsg(opt), cs, pc,
                            headers, connect_to_settings, handle)
          ELSE /\ res' = [res EXCEPT !.error = code]
               /\ calls' = cs
               /\ pc' = NextStep(pc, headers)
               /\ UNCHANGED <<handle, clock, ret>>
  /\ UNCHANGED <<req, headers, connect_to_settings, idx, nev, cbret, events, parked, outcome>>

\* if (req->body.size() > LONG_MAX) {...}
BodySizeCheck ==
  /\ pc = "body_size"
  /\ IF Len(req.body) > LONG_MAX
     THEN LogAndReturn(res, "Body larger than LONG_MAX", calls, pc,
                       headers, connect_to_settings, handle)
     ELSE /\ pc' = NextStep(pc, headers)
          /\ UNCHANGED <<res, calls, handle, clock, ret>>
  /\ UNCHANGED <<req, headers, connect_to_settings, idx, nev, cbret, events, parked, outcome>>

\* the call of MKCURL_EASY_PERFORM: the engine runs the transaction
EasyPerformCall ==
  /\ pc = "curl_easy_perform"
  /\ calls' = Append(calls, Call("curl_easy_perform", "", "", "running"))
  /\ pc' = "performing"
  /\ nev' = 0
  /\ UNCHANGED <<req, res, headers, connect_to_settings, handle, idx, clock,
                 cbret, events, ret, parked, outcome>>

\* faulty variant of EasyPerformReturn: the code is recorded, not acted upon
EasyPerformReturnIgnored(code) ==
  /\ pc = "performing"
  /\ res' = [res EXCEPT !.error = code]
  /\ calls' = [calls EXCEPT ![Len(calls)].ret = code]
  /\ pc' = NextStep("curl_easy_perform", headers)
  /\ UNCHANGED <<handle, clock, ret>>
  /\ UNCHANGED <<req, headers, connect_to_settings, idx, nev, cbret, events, parked, outcome>>

\* MKCURL_EASY_PERFORM returns code
EasyPerformReturn(code) ==
  /\ pc = "performing"
  /\ LET cs == [calls EXCEPT ![Len(calls)].ret = code]
     IN IF code # CURLE_OK
        THEN LogAndReturn([res EXCEPT !.error = code], "curl_easy_perform() failed",
                          cs, "curl_easy_perform", headers, connect_to_settings,
                          handle)
        ELSE /\ res' = [res EXCEPT !.error = code]
             /\ calls' = cs
             /\ pc' = NextStep("curl_easy_perform", headers)
             /\ UNCHANGED <<handle, clock, ret>>
  /\ UNCHANGED <<req, headers, connect_to_settings, idx, nev, cbret, events, parked, outcome>>

(***************************************************************************)
(* Result extraction.                                                      *)
(***************************************************************************)
CertKey == <<"C", "e", "r", "t", ":">>

\* faulty variant of IsCertLine: "Cert:" is looked for anywhere in the line
IsCertLineAnywhere(s) ==
  \E i \in 1..(Len(s) - Len(CertKey) + 1) :
    SubSeq(s, i, i + Len(CertKey) - 1) = CertKey

\* s.find("Cert:") == 0
IsCertLine(s) == Len(s) >= Len(CertKey) /\ SubSeq(s, 1, Len(CertKey)) = CertKey

\* the inner loop over one certificate's slist
RECURSIVE CertsOfSlist(_, _)
CertsOfSlist(slist, k) ==
  IF k > Len(slist) THEN <<>>
  ELSE (IF ~slist[k].isnull /\ IsCertLine(slist[k].data)
        THEN SubSeq(slist[k].data, Len(CertKey) + 1, Len(slist[k].data)) \o <<LF>>
        ELSE <<>>)
       \o CertsOfSlist(slist, k + 1)

\* the outer loop `for (int i = 0; i < certinfo->num_of_certs; i++)`
RECURSIVE CertsOfChain(_, _)
CertsOfChain(ci, i) ==
  IF i > ci.num_of_certs THEN <<>>
  ELSE CertsOfSlist(ci.certinfo[i], 1) \o CertsOfChain(ci, i + 1)

\* what the certificate block appends to res->certs
CertChain(certinfo) ==
  IF ~certinfo.isnull /\ certinfo.data.num_of_certs > 0
  THEN CertsOfChain(certinfo.data, 1)
  ELSE <<>>

\* faulty variant of HttpVersionString: every value from CURL_HTTP_VERSION_2_0
\* up is taken for HTTP/2
HttpVersionStringFromTwo(httpv) ==
  CASE httpv = CURL_HTTP_VERSION_1_0 -> "HTTP/1.0"
    [] httpv = CURL_HTTP_VERSION_1_1 -> "HTTP/1.1"
    [] httpv >= CURL_HTTP_VERSION_2_0 -> "HTTP/2"
    [] OTHER -> ""

\* the switch over httpv
HttpVersionString(httpv) ==
  CASE httpv = CURL_HTTP_VERSION_1_0 -> "HTTP/1.0"
    [] httpv = CURL_HTTP_VERSION_1_1 -> "HTTP/1.1"
    [] httpv = CURL_HTTP_VERSION_2_0 -> "HTTP/2"
    [] OTHER -> ""

\* the assignment that follows a successful curl_easy_getinfo(info), v being
\* the value the engine stored
StoreInfo(r, info, v) ==
  CASE info = "CURLINFO_RESPONSE_CODE" -> [r EXCEPT !.status_code = v]
    [] info = "CURLINFO_REDIRECT_URL" ->
         IF ~v.isnull THEN [r EXCEPT !.redirect_url = v.data] ELSE r
    [] info = "CURLINFO_CERTINFO" -> [r EXCEPT !.certs = @ \o CertChain(v)]
    [] info = "CURLINFO_CONTENT_TYPE" ->
         IF ~v.isnull THEN [r EXCEPT !.content_type = v.data] ELSE r
    [] info = "CURLINFO_HTTP_VERSION" ->
         [r EXCEPT !.http_version = HttpVersionString(v)]

\* a chain of two certificates, with lines under other keys and a null entry
TwoCerts ==
  Ptr([num_of_certs |-> 2,
       certinfo |-> << <<Ptr(<<"S", ":", "x">>), Ptr(CertKey \o <<"P", "1">>)>>,
                       <<NULLPTR, Ptr(CertKey \o <<"P", "2">>)>> >>])

\* values the engine stores on a successful readback
InfoValues(info) ==
  CASE info = "CURLINFO_RESPONSE_CODE" -> {200}
    [] info = "CURLINFO_REDIRECT_URL" -> {NULLPTR, Ptr("http://example.org/r")}
    [] info = "CURLINFO_CERTINFO" -> {TwoCerts}
    [] info = "CURLINFO_CONTENT_TYPE" -> {Ptr("text/html")}
    [] info = "CURLINFO_HTTP_VERSION" ->
         {CURL_HTTP_VERSION_NONE, CURL_HTTP_VERSION_1_1}

\* faulty variant of EasyGetinfo: a failed readback does not return
EasyGetinfoKeepsGoing(info) ==
  /\ pc = info
  /\ \E code \in CurlCodes :
       IF code # CURLE_OK
       THEN /\ res' = [res EXCEPT !.error = code]
            /\ calls' = Append(calls, Call("curl_easy_getinfo", info, "", code))
            /\ pc' = NextStep(pc, headers)
            /\ UNCHANGED <<handle, clock, ret>>
       ELSE \E v \in InfoValues(info) :
              /\ res' = StoreInfo([res EXCEPT !.error = code], info, v)
              /\ calls' = Append(calls, Call("curl_easy_getinfo", info, v, code))
              /\ pc' = NextStep(pc, headers)
              /\ UNCHANGED <<handle, clock, ret>>
  /\ UNCHANGED <<req, headers, connect_to_settings, idx, nev, cbret, events, parked, outcome>>

\* if ((res->error = MKCURL_EASY_GETINFO(handle, info, &v)) != CURLE_OK) {...}
\* with an engine that stores one of `values` when it succeeds
EasyGetinfoOf(info, values) ==
  /\ pc = info
  /\ \E code \in CurlCodes :
       IF code # CURLE_OK
       THEN LogAndReturn([res EXCEPT !.error = code],
                         "curl_easy_getinfo(" \o info \o ") failed",
                         Append(calls, Call("curl_easy_getinfo", info, "", code)),
                         pc, headers, connect_to_settings, handle)
       ELSE \E v \in values :
              /\ res' = StoreInfo([res EXCEPT !.error = code], info, v)
              /\ calls' = Append(calls, Call("curl_easy_getinfo", info, v, code))
              /\ pc' = NextStep(pc, headers)
              /\ UNCHANGED <<handle, clock, ret>>
  /\ UNCHANGED <<req, headers, connect_to_settings, idx, nev, cbret, events, parked, outcome>>

EasyGetinfo(info) == EasyGetinfoOf(info, InfoValues(info))

\* faulty variant of PerformSuccess: the success line is not logged
PerformSuccessSilent ==
  /\ pc = "success"
  /\ clock' = clock
  /\ Return(res, calls, pc, headers, connect_to_settings, handle)
  /\ UNCHANGED <<req, headers, connect_to_settings, idx, nev, cbret, events, parked, outcome>>

\* mkcurl_log(res->logs, "curl_easy_perform() success"); return res.release();
PerformSuccess ==
  /\ pc = "success"
  /\ LogAndReturn(res, "curl_easy_perform() success", calls, pc, headers,
                  connect_to_settings, handle)
  /\ UNCHANGED <<req, headers, connect_to_settings, idx, nev, cbret, events, parked, outcome>>

(***************************************************************************)
(* The specification: a request is built with the setters, perform is      *)
(* called once, the engine invokes the callbacks while it performs.        *)
(***************************************************************************)
\* what the engine delivers to the callbacks
BodyChunks == {<<Ptr(<<"b", "o">>), 1, 2>>}
DebugEvents ==
  {<<"CURLINFO_TEXT", <<"*", LF>>>>,
   <<"CURLINFO_HEADER_IN", <<"H", "\r", LF>>>>}

Init ==
  /\ req = mkcurl_request_new_nonnull
  /\ res = mkcurl_response_new
  /\ pc = "new"
  /\ calls = <<>>
  /\ headers = <<>>
  /\ connect_to_settings = <<>>
  /\ handle = "none"
  /\ idx = 1
  /\ clock = 0
  /\ nev = 0
  /\ cbret = 0
  /\ events = <<>>
  /\ ret = "none"
  /\ parked = <<>>
  /\ outcome = <<>>

Setter ==
  \/ \E p \in CaPaths : mkcurl_request_set_ca_bundle_path_v2(p)
  \/ mkcurl_request_enable_http2_v2
  \/ mkcurl_request_set_method_post_v2
  \/ mkcurl_request_set_method_put_v2
  \/ \E u \in Urls : mkcurl_request_set_url_v2(u)
  \/ \E h \in HeaderLines : mkcurl_request_add_header_v2(h)
  \/ \E b \in Bodies : mkcurl_request_set_body_binary_v3(b)
  \/ \E t \in TimeoutInputs : mkcurl_request_set_timeout_v2(t)
  \/ \E u \in ProxyUrls : mkcurl_request_set_proxy_url_v2(u)
  \/ mkcurl_request_enable_tcp_fastopen
  \/ \E ip \in ConnectIps : mkcurl_request_set_connect_to(ip)
  \/ mkcurl_request_enable_follow_redirect_v2

Pipeline ==
  \/ PerformEasyInit
  \/ SlistAppendHeader
  \/ SlistAppendConnectTo
  \/ SlistAppendExpect
  \/ \E opt \in SetoptSteps : EasySetopt(opt)
  \/ BodySizeCheck
  \/ EasyPerformCall
  \/ \E code \in CurlCodes : EasyPerformReturn(code)
  \/ \E info \in GetinfoSteps : EasyGetinfo(info)
  \/ PerformSuccess

Engine ==
  \/ \E c \in BodyChunks :
       nev < MaxEvents /\ mkcurl_body_cb(c[1], c[2], c[3], "res")
  \/ \E e \in DebugEvents :
       nev < MaxEvents /\ mkcurl_debug_cb(e[1], Ptr(e[2]), Len(e[2]), "res")

Next == Setter \/ Pipeline \/ Engine

Spec == Init /\ [][Next]_vars

\* perform is sequential code: once called, each of its statements runs
FairSpec == Spec /\ WF_vars(Pipeline)

(***************************************************************************)
(* The callbacks alone: the engine is performing the transaction of a new  *)
(* request and invokes the two callbacks with arguments of every kind.     *)
(***************************************************************************)
\* perform has called curl_easy_perform for a new request, every option of
\* which the engine accepted
CbInit ==
  /\ req = mkcurl_request_new_nonnull
  /\ res = mkcurl_response_new
  /\ pc = "performing"
  /\ headers = <<>>
  /\ connect_to_settings = <<>>
  /\ calls = <<Call("curl_easy_init", "", "", "live")>>
               \o [k \in 1..Len(SelectSeq(Steps, LAMBDA l : l \in SetoptSteps /\ Applies(l, <<>>)))
                    |-> Call("curl_easy_setopt",
                             SelectSeq(Steps, LAMBDA l : l \in SetoptSteps /\ Applies(l, <<>>))[k],
                             SetoptArg(SelectSeq(Steps, LAMBDA l : l \in SetoptSteps /\ Applies(l, <<>>))[k]),
                             CURLE_OK)]
               \o <<Call("curl_easy_perform", "", "", "running")>>
  /\ handle = "live"
  /\ idx = 1
  /\ clock = 0
  /\ nev = 0
  /\ cbret = 0
  /\ events = <<>>
  /\ ret = "none"
  /\ parked = <<>>
  /\ outcome = <<>>

\* arguments ptr, size, nmemb, userdata the engine (or a caller) hands to
\* mkcurl_body_cb: chunks shorter than their buffer, with a zero byte, of
\* size zero, of SIZE_MAX bytes, products beyond SIZE_MAX, zero counts and
\* null pointers
CbChunks ==
  {<<Ptr(<<"b", "o", "X">>), 1, 2, "res">>,
   <<Ptr(<<"d", NUL, "y">>), 3, 1, "res">>,
   <<Ptr(<<>>), 0, 2, "res">>,
   <<NULLPTR, 0, 1, "res">>,
   <<Ptr([k \in 1..SIZE_MAX |-> "m"]), SIZE_MAX, 1, "res">>,
   <<Ptr(<<"w", "r">>), (SIZE_MAX + 1) \div 2 + 1, 2, "res">>,
   <<Ptr(<<"w">>), SIZE_MAX, SIZE_MAX, "res">>,
   <<NULLPTR, SIZE_MAX, 2, "NULL">>,
   <<Ptr(<<"z">>), 1, 0, "res">>,
   <<NULLPTR, 5, 0, "NULL">>,
   <<NULLPTR, 1, 1, "res">>,
   <<Ptr(<<"q">>), 1, 1, "NULL">>}

\* arguments type, data, size, userptr handed to mkcurl_debug_cb
CbDebugEvents ==
  {<<"CURLINFO_TEXT", Ptr(<<"*", LF>>), 2, "res">>,
   <<"CURLINFO_TEXT", Ptr(<<"a", LF, LF, "b">>), 4, "res">>,
   <<"CURLINFO_TEXT", Ptr(<<>>), 0, "res">>,
   <<"CURLINFO_HEADER_IN", Ptr(<<"H", "\r", LF>>), 3, "res">>,
   <<"CURLINFO_HEADER_IN", Ptr(<<"K", LF, "X">>), 2, "res">>,
   <<"CURLINFO_HEADER_OUT", Ptr(<<"G", "\r", LF>>), 3, "res">>,
   <<"CURLINFO_HEADER_OUT", Ptr(<<"A">>), 1, "res">>,
   <<"CURLINFO_DATA_IN", Ptr(<<"s", "e", "c">>), 3, "res">>,
   <<"CURLINFO_DATA_IN", Ptr(<<"t", "o", "p">>), 3, "res">>,
   <<"CURLINFO_DATA_OUT", Ptr(<<"u", "p">>), 2, "res">>,
   <<"CURLINFO_SSL_DATA_IN", Ptr(<<"k", "e", "y">>), 3, "res">>,
   <<"CURLINFO_SSL_DATA_OUT", Ptr(<<"p">>), 1, "res">>,
   <<"CURLINFO_END", Ptr(<<>>), 0, "res">>,
   <<"CURLINFO_TEXT", NULLPTR, 0, "res">>,
   <<"CURLINFO_TEXT", Ptr(<<"*", LF>>), 2, "NULL">>,
   <<"CURLINFO_HEADER_IN", NULLPTR, 3, "res">>,
   <<"CURLINFO_HEADER_OUT", Ptr(<<"G", "\r", LF>>), 3, "NULL">>,
   <<"CURLINFO_DATA_IN", NULLPTR, 0, "NULL">>,
   <<"CURLINFO_DATA_OUT", Ptr(<<"u", "p">>), 2, "NULL">>,
   <<"CURLINFO_SSL_DATA_IN", NULLPTR, 3, "res">>,
   <<"CURLINFO_SSL_DATA_OUT", Ptr(<<"p">>), 1, "NULL">>,
   <<"CURLINFO_END", NULLPTR, 0, "res">>,
   <<"CURLINFO_END", Ptr(<<>>), 0, "NULL">>}

CbNext ==
  \/ \E c \in CbChunks :
       nev < MaxCallbacks /\ mkcurl_body_cb(c[1], c[2], c[3], c[4])
  \/ \E e \in CbDebugEvents :
       nev < MaxCallbacks /\ mkcurl_debug_cb(e[1], e[2], e[3], e[4])

CbSpec == CbInit /\ [][CbNext]_vars

(***************************************************************************)
(* The timeout and the upload: the setters of timeout, method and body,    *)
(* then perform up to the call of curl_easy_perform.                       *)
(***************************************************************************)
\* int64_t timeouts, every one from below LONG_MIN to beyond twice LONG_MAX
TimeoutRange == (0 - LONG_MAX - 3)..(2 * LONG_MAX + 3)

OptionNext ==
  \/ \E t \in TimeoutRange : mkcurl_request_set_timeout_v2(t)
  \/ mkcurl_request_set_method_post_v2
  \/ mkcurl_request_set_method_put_v2
  \/ \E b \in Bodies : mkcurl_request_set_body_binary_v3(b)
  \/ PerformEasyInit
  \/ SlistAppendExpect
  \/ \E opt \in SetoptSteps : EasySetopt(opt)
  \/ BodySizeCheck
  \/ EasyPerformCall

OptionSpec == Init /\ [][OptionNext]_vars

(***************************************************************************)
(* Result extraction alone: curl_easy_perform has succeeded for a new      *)
(* request and the engine holds a certificate chain of any shape.          *)
(***************************************************************************)
\* the state in which MKCURL_EASY_PERFORM has returned CURLE_OK, no callback
\* having been invoked
CertInit ==
  /\ req = mkcurl_request_new_nonnull
  /\ res = mkcurl_response_new
  /\ pc = "CURLINFO_RESPONSE_CODE"
  /\ headers = <<>>
  /\ connect_to_settings = <<>>
  /\ calls = <<Call("curl_easy_init", "", "", "live")>>
               \o [k \in 1..Len(SelectSeq(Steps, LAMBDA l : l \in SetoptSteps /\ Applies(l, <<>>)))
                    |-> Call("curl_easy_setopt",
                             SelectSeq(Steps, LAMBDA l : l \in SetoptSteps /\ Applies(l, <<>>))[k],
                             SetoptArg(SelectSeq(Steps, LAMBDA l : l \in SetoptSteps /\ Applies(l, <<>>))[k]),
                             CURLE_OK)]
               \o <<Call("curl_easy_perform", "", "", CURLE_OK)>>
  /\ handle = "live"
  /\ idx = 1
  /\ clock = 0
  /\ nev = 0
  /\ cbret = 0
  /\ events = <<>>
  /\ ret = "none"
  /\ parked = <<>>
  /\ outcome = <<>>

\* the curl_certinfo the engine stores: none, an empty one, TwoCerts, one
\* certificate whose lines have "Cert:" inside the value, no colon, an empty
\* value, a colon in the value, a longer key and a key in lower case, and
\* three certificates the first of which has no lines
CertChains ==
  {NULLPTR,
   Ptr([num_of_certs |-> 0, certinfo |-> <<>>]),
   TwoCerts,
   Ptr([num_of_certs |-> 1,
        certinfo |-> << <<Ptr(<<"S", ":">> \o CertKey \o <<"x">>),
                          Ptr(<<"C", "e", "r", "t">>),
                          Ptr(CertKey),
                          Ptr(CertKey \o <<"a", ":", "b">>),
                          Ptr(<<"X">> \o CertKey \o <<"v">>),
                          Ptr(<<"c", "e", "r", "t", ":", "l">>)>> >>]),
   Ptr([num_of_certs |-> 3,
        certinfo |-> << <<>>,
                        <<Ptr(CertKey \o <<"P", "3">>), Ptr(CertKey \o <<"P", "4">>)>>,
                        <<Ptr(CertKey \o <<"P", "1">>)>> >>])}

CertNext ==
  \/ \E info \in GetinfoSteps :
       EasyGetinfoOf(info, IF info = "CURLINFO_CERTINFO" THEN CertChains
                           ELSE InfoValues(info))
  \/ PerformSuccess

CertSpec == CertInit /\ [][CertNext]_vars

(***************************************************************************)
(* The HTTP version: a transaction of a request with or without HTTP/2     *)
(* enabled, the engine storing any long in the readback of the version.    *)
(***************************************************************************)
\* every value of a long
HttpVersions == (0 - LONG_MAX - 1)..LONG_MAX

VersionNext ==
  \/ mkcurl_request_enable_http2_v2
  \/ PerformEasyInit
  \/ \E opt \in SetoptSteps : EasySetopt(opt)
  \/ EasyPerformCall
  \/ \E code \in CurlCodes : EasyPerformReturn(code)
  \/ \E info \in GetinfoSteps :
       EasyGetinfoOf(info, IF info = "CURLINFO_HTTP_VERSION" THEN HttpVersions
                           ELSE InfoValues(info))
  \/ PerformSuccess

VersionSpec == Init /\ [][VersionNext]_vars

(***************************************************************************)
(* One transaction of a new request, from the call of perform to its       *)
(* return, with the callbacks of CbNext while the engine performs it.      *)
(***************************************************************************)
Transaction ==
  \/ PerformEasyInit
  \/ \E opt \in SetoptSteps : EasySetopt(opt)
  \/ EasyPerformCall
  \/ \E code \in CurlCodes : EasyPerformReturn(code)
  \/ \E info \in GetinfoSteps : EasyGetinfo(info)
  \/ PerformSuccess

TransNext == Transaction \/ CbNext

TransSpec == Init /\ [][TransNext]_vars

(***************************************************************************)
(* perform called twice with the same request: the caller keeps the record *)
(* of the first call, and the engine of the second call gives the answers  *)
(* and makes the callback invocations it gave and made in the first.       *)
(***************************************************************************)
\* what belongs to the running transaction: the request, the record, the
\* locals of perform and what the engine did
Running ==
  [req |-> req, res |-> res, pc |-> pc, calls |-> calls, headers |-> headers,
   connect_to_settings |-> connect_to_settings, handle |-> handle, idx |-> idx,
   nev |-> nev, cbret |-> cbret, events |-> events, ret |-> ret]

\* perform has returned; the caller keeps the record and is about to call
\* perform with the same request once more
PerformAgain ==
  /\ pc = "returned"
  /\ parked = <<>>
  /\ parked' = <<Running>>
  /\ pc' = "new"
  /\ calls' = <<>>
  /\ headers' = <<>>
  /\ connect_to_settings' = <<>>
  /\ handle' = "none"
  /\ idx' = 1
  /\ nev' = 0
  /\ cbret' = 0
  /\ events' = <<>>
  /\ ret' = "none"
  /\ UNCHANGED <<req, res, clock, outcome>>

\* the engine answers the call c as it answered the same call d before
SameAnswer(c, d) ==
  (c.api = d.api /\ c.opt = d.opt) =>
    /\ c.ret = d.ret \/ (c.api = "curl_easy_perform" /\ c.ret = "running")
    /\ (c.api = "curl_easy_getinfo" /\ c.ret = CURLE_OK) => c.arg = d.arg

\* the engine invokes the callback with the arguments it passed before
SameInput(e, f) ==
  /\ e.cb = f.cb
  /\ e.type = f.type
  /\ e.data = f.data
  /\ e.size = f.size
  /\ e.nmemb = f.nmemb
  /\ e.userdata = f.userdata

\* a deterministic engine: in the step being taken it behaves as it did in
\* the transaction `first`
EngineRepeats(first) ==
  /\ \A k \in 1..Len(calls') :
       k <= Len(first.calls) => SameAnswer(calls'[k], first.calls[k])
  /\ Len(events') <= Len(first.events)
  /\ \A k \in 1..Len(events') : SameInput(events'[k], first.events[k])
  /\ (\E k \in 1..Len(calls') :
        calls'[k].api = "curl_easy_perform" /\ calls'[k].ret # "running")
       => Len(events') = Len(first.events)

\* the setters that decide which lists perform builds and what it uploads
IdemSetter ==
  \/ mkcurl_request_set_method_put_v2
  \/ \E h \in HeaderLines : mkcurl_request_add_header_v2(h)
  \/ \E b \in Bodies : mkcurl_request_set_body_binary_v3(b)
  \/ \E ip \in ConnectIps : mkcurl_request_set_connect_to(ip)

IdemNext ==
  \/ parked = <<>> /\ (IdemSetter \/ Pipeline \/ Engine)
  \/ PerformAgain
  \/ parked # <<>> /\ (Pipeline \/ Engine) /\ EngineRepeats(parked[1])

IdemSpec == Init /\ [][IdemNext]_vars

(***************************************************************************)
(* Two threads, each performing a transaction of its own. The scheduler    *)
(* may switch from one to the other between any two steps; the steady      *)
(* clock is the one thing both read.                                       *)
(***************************************************************************)
\* a request with a header, and a PUT with a body and a connect-to address
RequestOfFirst ==
  [mkcurl_request_new_nonnull EXCEPT !.headers = <<"Accept: */*">>]

RequestOfSecond ==
  [mkcurl_request_new_nonnull EXCEPT !.method = "PUT",
                                     !.body = <<"a", NUL, "b">>,
                                     !.connect_to = "127.0.0.1"]

ConcInit ==
  /\ req = RequestOfFirst
  /\ res = mkcurl_response_new
  /\ pc = "new"
  /\ calls = <<>>
  /\ headers = <<>>
  /\ connect_to_settings = <<>>
  /\ handle = "none"
  /\ idx = 1
  /\ clock = 0
  /\ nev = 0
  /\ cbret = 0
  /\ events = <<>>
  /\ ret = "none"
  /\ parked = <<[req |-> RequestOfSecond, res |-> mkcurl_response_new,
                 pc |-> "new", calls |-> <<>>, headers |-> <<>>,
                 connect_to_settings |-> <<>>, handle |-> "none", idx |-> 1,
                 nev |-> 0, cbret |-> 0, events |-> <<>>, ret |-> "none"]>>
  /\ outcome = <<>>

\* the scheduler suspends the running thread and resumes the other
ContextSwitch ==
  /\ parked # <<>>
  /\ parked' = <<Running>>
  /\ req' = parked[1].req
  /\ res' = parked[1].res
  /\ pc' = parked[1].pc
  /\ calls' = parked[1].calls
  /\ headers' = parked[1].headers
  /\ connect_to_settings' = parked[1].connect_to_settings
  /\ handle' = parked[1].handle
  /\ idx' = parked[1].idx
  /\ nev' = parked[1].nev
  /\ cbret' = parked[1].cbret
  /\ events' = parked[1].events
  /\ ret' = parked[1].ret
  /\ UNCHANGED <<clock, outcome>>

\* an engine that creates every handle, grows every list and accepts every
\* option: in the step being taken no such call fails
EngineAccepts ==
  \A k \in 1..Len(calls') :
    calls'[k].api \in {"curl_easy_init", "curl_slist_append", "curl_easy_setopt"}
      => calls'[k].ret \in {"live", SlistRet(TRUE), CURLE_OK}

ConcNext ==
  \/ (Pipeline \/ Engine) /\ EngineAccepts
  \/ ContextSwitch

ConcSpec == ConcInit /\ [][ConcNext]_vars

(***************************************************************************)
(* The public boundary: the setters, perform and the accessors, called     *)
(* with null and with non-null pointers.                                   *)
(***************************************************************************)
RequestSetters ==
  {"mkcurl_request_set_ca_bundle_path_v2", "mkcurl_request_enable_http2_v2",
   "mkcurl_request_set_method_post_v2", "mkcurl_request_set_method_put_v2",
   "mkcurl_request_set_url_v2", "mkcurl_request_add_header_v2",
   "mkcurl_request_set_body_binary_v3", "mkcurl_request_set_timeout_v2",
   "mkcurl_request_set_proxy_url_v2", "mkcurl_request_enable_tcp_fastopen",
   "mkcurl_request_set_connect_to", "mkcurl_request_enable_follow_redirect_v2",
   "mkcurl_request_movein_body_v2"}

BinaryAccessors ==
  {"mkcurl_response_get_body_binary_v3", "mkcurl_response_get_logs_binary_v3",
   "mkcurl_response_get_response_headers_binary_v3"}

ResponseAccessors ==
  {"mkcurl_response_get_error_v2", "mkcurl_response_get_redirect_url_v2",
   "mkcurl_response_get_status_code_v2", "mkcurl_response_get_bytes_sent_v2",
   "mkcurl_response_get_bytes_recv_v2",
   "mkcurl_response_get_request_headers_v2",
   "mkcurl_response_get_certificate_chain_v2",
   "mkcurl_response_get_content_type_v2", "mkcurl_response_get_http_version",
   "mkcurl_response_moveout_body_v2", "mkcurl_response_moveout_logs_v2",
   "mkcurl_response_moveout_response_headers_v2"} \cup BinaryAccessors

PublicFunctions ==
  RequestSetters \cup {"mkcurl_request_perform_nonnull"} \cup ResponseAccessors

\* the pointer parameters of each function, from its signature
PointerParams(fn) ==
  CASE fn = "mkcurl_request_set_ca_bundle_path_v2" -> {"req", "p"}
    [] fn = "mkcurl_request_set_url_v2" -> {"req", "u"}
    [] fn = "mkcurl_request_add_header_v2" -> {"req", "h"}
    [] fn = "mkcurl_request_set_body_binary_v3" -> {"req", "b"}
    [] fn = "mkcurl_request_set_proxy_url_v2" -> {"req", "u"}
    [] fn = "mkcurl_request_set_connect_to" -> {"req", "ip"}
    [] fn \in BinaryAccessors -> {"res", "p", "n"}
    [] fn \in ResponseAccessors \ BinaryAccessors -> {"res"}
    [] OTHER -> {"req"}

\* faulty variant of NullChecked: only the request or the record is tested
NullCheckedObjectOnly(fn) ==
  IF fn \in ResponseAccessors THEN {"res"} ELSE {"req"}

\* the pointers each function compares with nullptr in its first statement
NullChecked(fn) ==
  CASE fn \in {"mkcurl_request_enable_http2_v2",
               "mkcurl_request_set_method_post_v2",
               "mkcurl_request_set_method_put_v2",
               "mkcurl_request_set_timeout_v2",
               "mkcurl_request_enable_tcp_fastopen",
               "mkcurl_request_enable_follow_redirect_v2",
               "mkcurl_request_movein_body_v2",
               "mkcurl_request_perform_nonnull"} -> {"req"}
    [] fn = "mkcurl_request_set_ca_bundle_path_v2" -> {"req", "p"}
    [] fn = "mkcurl_request_set_url_v2" -> {"req", "u"}
    [] fn = "mkcurl_request_add_header_v2" -> {"req", "h"}
    [] fn = "mkcurl_request_set_body_binary_v3" -> {"req", "b"}
    [] fn = "mkcurl_request_set_proxy_url_v2" -> {"req", "u"}
    [] fn = "mkcurl_request_set_connect_to" -> {"req", "ip"}
    [] fn \in {"mkcurl_response_get_body_binary_v3",
               "mkcurl_response_get_logs_binary_v3",
               "mkcurl_response_get_response_headers_binary_v3"}
         -> {"res", "p", "n"}
    [] fn \in {"mkcurl_response_get_error_v2",
               "mkcurl_response_get_redirect_url_v2",
               "mkcurl_response_get_status_code_v2",
               "mkcurl_response_get_bytes_sent_v2",
               "mkcurl_response_get_bytes_recv_v2",
               "mkcurl_response_get_request_headers_v2",
               "mkcurl_response_get_certificate_chain_v2",
               "mkcurl_response_get_content_type_v2",
               "mkcurl_response_get_http_version",
               "mkcurl_response_moveout_body_v2",
               "mkcurl_response_moveout_logs_v2",
               "mkcurl_response_moveout_response_headers_v2"} -> {"res"}

\* the value a call hands back: an int64_t, a double, a C string that is a
\* fixed text of the model, a C string of bytes, or what it stores through
\* the pointers p and n
NoValue ==
  [code |-> "", num |-> 0, text |-> "", bytes |-> <<>>, p |-> <<>>, n |-> 0]

\* what a call of a public function came to
Outcome(fn, nulls, aborted, r) ==
  [fn |-> fn, nulls |-> nulls, aborted |-> aborted, ret |-> r]

\* fn called with the pointers `nulls` null: MKCURL_ABORT() when one of
\* them is tested; otherwise the function goes on to use a null pointer,
\* which is undefined: the process may crash there or carry on
NullCall(fn, nulls) ==
  /\ pc \in {"new", "returned"}
  /\ nulls # {}
  /\ IF nulls \cap NullChecked(fn) # {}
     THEN /\ pc' = "aborted"
          /\ outcome' = <<Outcome(fn, nulls, TRUE, NoValue)>>
     ELSE /\ pc' \in {pc, "aborted"}
          /\ outcome' = <<Outcome(fn, nulls, FALSE, NoValue)>>
  /\ UNCHANGED <<req, res, calls, headers, connect_to_settings, handle, idx,
                 clock, nev, cbret, events, ret, parked>>

\* std::string::c_str() as a C caller reads it: the bytes before the first
\* zero byte
c_str(s) ==
  IF \E k \in 1..Len(s) : s[k] = NUL
  THEN SubSeq(s, 1, (CHOOSE k \in 1..Len(s) :
                       s[k] = NUL /\ \A j \in 1..(k - 1) : s[j] # NUL) - 1)
  ELSE s

\* the value an accessor returns, or stores through p and n
AccessorValue(fn, r) ==
  CASE fn = "mkcurl_response_get_error_v2" -> [NoValue EXCEPT !.code = r.error]
    [] fn = "mkcurl_response_get_redirect_url_v2"
         -> [NoValue EXCEPT !.text = r.redirect_url]
    [] fn = "mkcurl_response_get_status_code_v2"
         -> [NoValue EXCEPT !.num = r.status_code]
    [] fn = "mkcurl_response_get_body_binary_v3"
         -> [NoValue EXCEPT !.p = r.body, !.n = Len(r.body)]
    [] fn = "mkcurl_response_get_bytes_sent_v2"
         -> [NoValue EXCEPT !.num = r.bytes_sent]
    [] fn = "mkcurl_response_get_bytes_recv_v2"
         -> [NoValue EXCEPT !.num = r.bytes_recv]
    [] fn = "mkcurl_response_get_logs_binary_v3"
         -> [NoValue EXCEPT !.p = r.logs, !.n = Len(r.logs)]
    [] fn = "mkcurl_response_get_request_headers_v2"
         -> [NoValue EXCEPT !.bytes = c_str(r.request_headers)]
    [] fn = "mkcurl_response_get_response_headers_binary_v3"
         -> [NoValue EXCEPT !.p = r.response_headers,
                            !.n = Len(r.response_headers)]
    [] fn = "mkcurl_response_get_certificate_chain_v2"
         -> [NoValue EXCEPT !.bytes = c_str(r.certs)]
    [] fn = "mkcurl_response_get_content_type_v2"
         -> [NoValue EXCEPT !.text = r.content_type]
    [] fn = "mkcurl_response_get_http_version"
         -> [NoValue EXCEPT !.text = r.http_version]
    [] fn = "mkcurl_response_moveout_body_v2" -> [NoValue EXCEPT !.bytes = r.body]
    [] fn = "mkcurl_response_moveout_logs_v2" -> [NoValue EXCEPT !.bytes = r.logs]
    [] fn = "mkcurl_response_moveout_response_headers_v2"
         -> [NoValue EXCEPT !.bytes = r.response_headers]

\* the records an accessor can leave: a moved-from std::string is valid but
\* unspecified, empty in the common libraries
AccessorLeaves(fn, r) ==
  CASE fn = "mkcurl_response_moveout_body_v2"
         -> {r, [r EXCEPT !.body = <<>>]}
    [] fn = "mkcurl_response_moveout_logs_v2"
         -> {r, [r EXCEPT !.logs = <<>>]}
    [] fn = "mkcurl_response_moveout_response_headers_v2"
         -> {r, [r EXCEPT !.response_headers = <<>>]}
    [] OTHER -> {r}

\* an accessor called on the returned record with non-null pointers
Accessor(fn) ==
  /\ pc = "returned"
  /\ outcome' = <<Outcome(fn, {}, FALSE, AccessorValue(fn, res))>>
  /\ res' \in AccessorLeaves(fn, res)
  /\ UNCHANGED <<req, pc, calls, headers, connect_to_settings, handle, idx,
                 clock, nev, cbret, events, ret, parked>>

\* std::swap(req->body, b)
mkcurl_request_movein_body_v2(b) == SetField([req EXCEPT !.body = b])

ApiSetter ==
  \/ mkcurl_request_set_method_post_v2
  \/ \E u \in Urls : mkcurl_request_set_url_v2(u)
  \/ \E b \in Bodies : mkcurl_request_movein_body_v2(b)

ApiNext ==
  \/ ApiSetter
  \/ Pipeline /\ EngineAccepts
  \/ \E c \in BodyChunks :
       nev < MaxEvents /\ mkcurl_body_cb(c[1], c[2], c[3], "res")
  \/ \E fn \in PublicFunctions :
       \E nulls \in SUBSET PointerParams(fn) : NullCall(fn, nulls)
  \/ \E fn \in ResponseAccessors : Accessor(fn)

ApiSpec == Init /\ [][ApiNext]_vars

(***************************************************************************)
(* Properties.                                                             *)
(***************************************************************************)
ApiCalls(api) == SelectSeq(calls, LAMBDA c : c.api = api)

OptsOf(s) == [i \in 1..Len(s) |-> s[i].opt]

IsPrefix(a, b) == Len(a) <= Len(b) /\ SubSeq(b, 1, Len(a)) = a

\* the engine calls that configure, run or read back a transaction
EngineWork == {"curl_easy_setopt", "curl_easy_perform", "curl_easy_getinfo"}

\* C1: when the engine rejects an option with code E, perform has returned
\* with error = E and no option, execute or readback call follows the
\* rejected one.
C1_SetoptFailureStops ==
  \A i \in 1..Len(calls) :
    (calls[i].api = "curl_easy_setopt" /\ calls[i].ret # CURLE_OK) =>
      /\ pc = "returned"
      /\ res.error = calls[i].ret
      /\ \A j \in (i + 1)..Len(calls) : calls[j].api \notin EngineWork

\* an option was rejected after earlier ones had been accepted
C1_Witness ==
  /\ pc = "returned"
  /\ \E i \in 2..Len(calls) :
       /\ calls[i].api = "curl_easy_setopt"
       /\ calls[i].opt = "CURLOPT_URL"
       /\ calls[i].ret = CURLE_NOT_BUILT_IN
       /\ calls[i - 1].api = "curl_easy_setopt"

\* the order of the options and the condition under which each applies
OptionOrder ==
  <<"CURLOPT_CONNECT_TO", "CURLOPT_TCP_FASTOPEN", "CURLOPT_CAINFO",
    "CURLOPT_HTTP_VERSION", "CURLOPT_POST", "CURLOPT_POSTFIELDS",
    "CURLOPT_POSTFIELDSIZE", "CURLOPT_CUSTOMREQUEST", "CURLOPT_HTTPHEADER",
    "CURLOPT_URL", "CURLOPT_WRITEFUNCTION", "CURLOPT_WRITEDATA",
    "CURLOPT_NOSIGNAL", "CURLOPT_TIMEOUT", "CURLOPT_DEBUGFUNCTION",
    "CURLOPT_DEBUGDATA", "CURLOPT_VERBOSE", "CURLOPT_PROXY",
    "CURLOPT_FOLLOWLOCATION", "CURLOPT_CERTINFO">>

OptionWanted(opt) ==
  CASE opt = "CURLOPT_CONNECT_TO" -> req.connect_to # ""
    [] opt = "CURLOPT_TCP_FASTOPEN" -> req.enable_fastopen
    [] opt = "CURLOPT_CAINFO" -> req.ca_path # ""
    [] opt = "CURLOPT_HTTP_VERSION" -> req.enable_http2
    [] opt \in {"CURLOPT_POST", "CURLOPT_POSTFIELDS", "CURLOPT_POSTFIELDSIZE"} ->
         req.method # "GET"
    [] opt = "CURLOPT_CUSTOMREQUEST" -> req.method = "PUT"
    [] opt = "CURLOPT_HTTPHEADER" -> req.headers # <<>> \/ req.method # "GET"
    [] opt = "CURLOPT_TIMEOUT" -> req.timeout >= 0
    [] opt = "CURLOPT_PROXY" -> req.proxy_url # ""
    [] opt = "CURLOPT_FOLLOWLOCATION" -> req.follow_redir
    [] OTHER -> TRUE

\* C2: the options set so far are a prefix of OptionOrder with the options
\* the request does not want removed.
C2_OptionOrder ==
  IsPrefix(OptsOf(ApiCalls("curl_easy_setopt")),
           SelectSeq(OptionOrder, OptionWanted))

\* every option of a PUT request with a header was set
C2_Witness ==
  /\ req.method = "PUT"
  /\ req.headers # <<>>
  /\ pc = "curl_easy_perform"
  /\ OptsOf(ApiCalls("curl_easy_setopt")) = SelectSeq(OptionOrder, OptionWanted)
  /\ Len(ApiCalls("curl_easy_setopt")) = 14

\* C3 as stated: with no handle, error is out-of-memory, body, headers and
\* logs are empty and curl_easy_init is the only engine call.
C3_AsStated ==
  (pc = "returned" /\ calls[1].ret = "none") =>
    /\ res.error = CURLE_OUT_OF_MEMORY
    /\ res.body = <<>>
    /\ res.request_headers = <<>>
    /\ res.response_headers = <<>>
    /\ res.logs = <<>>
    /\ Len(calls) = 1

\* C3: with no handle, error is out-of-memory, body and headers are empty,
\* logs hold the one line "curl_easy_init() failed" and curl_easy_init is the
\* only engine call.
C3_InitFailure ==
  (pc # "new" /\ calls[1].ret = "none") =>
    /\ pc = "returned"
    /\ res.error = CURLE_OUT_OF_MEMORY
    /\ res.body = <<>>
    /\ res.request_headers = <<>>
    /\ res.response_headers = <<>>
    /\ Len(res.logs) = 5
    /\ res.logs[1] = "["
    /\ res.logs[3] = "] "
    /\ res.logs[4] = "curl_easy_init() failed"
    /\ res.logs[5] = LF
    /\ Len(calls) = 1

\* curl_easy_init returned null for a request with a header
C3_Witness ==
  /\ pc = "returned"
  /\ calls[1].ret = "none"
  /\ req.headers # <<>>

\* C4: when the append of a header of the request fails, perform has
\* returned with error out-of-memory and no option, execute or readback call
\* was made.
C4_HeaderAppendFailure ==
  \A i \in 1..Len(calls) :
    (/\ calls[i].api = "curl_slist_append"
     /\ calls[i].opt = "headers"
     /\ i <= 1 + Len(req.headers)
     /\ calls[i].ret = "NULL") =>
      /\ pc = "returned"
      /\ res.error = CURLE_OUT_OF_MEMORY
      /\ \A j \in 1..Len(calls) : calls[j].api \notin EngineWork

\* the append of the second header failed
C4_Witness ==
  /\ pc = "returned"
  /\ Len(req.headers) = 2
  /\ Len(calls) >= 3
  /\ calls[3].api = "curl_slist_append"
  /\ calls[3].ret = "NULL"

\* curl_easy_perform returned CURLE_OK
ExecuteSucceeded ==
  \E i \in 1..Len(calls) :
    calls[i].api = "curl_easy_perform" /\ calls[i].ret = CURLE_OK

\* the order of the readbacks
ReadbackOrder ==
  <<"CURLINFO_RESPONSE_CODE", "CURLINFO_REDIRECT_URL", "CURLINFO_CERTINFO",
    "CURLINFO_CONTENT_TYPE", "CURLINFO_HTTP_VERSION">>

\* all five readbacks were made and succeeded
AllReadbacksSucceeded ==
  /\ OptsOf(ApiCalls("curl_easy_getinfo")) = ReadbackOrder
  /\ \A k \in 1..Len(ReadbackOrder) :
       ApiCalls("curl_easy_getinfo")[k].ret = CURLE_OK

\* C5: when perform has returned with error CURLE_OK, curl_easy_perform and
\* all five readbacks ran and succeeded, also for a POST or PUT whose body is
\* longer than LONG_MAX.
C5_OkMeansSuccess ==
  (pc = "returned" /\ res.error = CURLE_OK) =>
    ExecuteSucceeded /\ AllReadbacksSucceeded

\* perform returned CURLE_OK for a body longer than LONG_MAX without executing
C5_Witness ==
  /\ pc = "returned"
  /\ res.error = CURLE_OK
  /\ req.method = "POST"
  /\ Len(req.body) > LONG_MAX
  /\ ApiCalls("curl_easy_perform") = <<>>

\* the lines perform itself logs
FailureLines ==
  {"curl_easy_init() failed", "curl_slist_append() failed",
   "Body larger than LONG_MAX", "curl_easy_perform() failed",
   "curl_easy_setopt(MKCURLOPT_POSTFIELDSIZE) failed"}
    \cup {"curl_easy_setopt(" \o OptionOrder[k] \o ") failed" :
            k \in 1..Len(OptionOrder)}
    \cup {"curl_easy_getinfo(" \o ReadbackOrder[k] \o ") failed" :
            k \in 1..Len(ReadbackOrder)}

SuccessLine == "curl_easy_perform() success"

\* the number of tokens of logs that are in the set `lines`
CountLines(lines) == Cardinality({k \in 1..Len(res.logs) : res.logs[k] \in lines})

\* the last line of logs is "[" timestamp "] " line "\n", line being in `lines`
LastLineIn(lines) ==
  LET n == Len(res.logs)
  IN /\ n >= 5
     /\ res.logs[n - 4] = "["
     /\ res.logs[n - 2] = "] "
     /\ res.logs[n - 1] \in lines
     /\ res.logs[n] = LF
     /\ n > 5 => res.logs[n - 5] = LF

\* C6: until perform returns it has logged no line of its own; when it
\* returns without all five readbacks having succeeded, logs holds exactly one
\* failure line, that line is the last line of logs, and the success line is
\* absent.
C6_OneFailureLine ==
  /\ pc # "returned" => CountLines(FailureLines \cup {SuccessLine}) = 0
  /\ (pc = "returned" /\ ~AllReadbacksSucceeded) =>
       /\ CountLines(FailureLines) = 1
       /\ LastLineIn(FailureLines)
       /\ CountLines({SuccessLine}) = 0

\* curl_easy_perform failed after the transcript collector had logged a line
C6_Witness ==
  /\ pc = "returned"
  /\ Len(res.logs) > 5
  /\ res.logs[Len(res.logs) - 1] = "curl_easy_perform() failed"

\* C7: once perform is called it returns, and what it returns is the record.
C7_PerformReturns == (pc # "new") ~> (pc = "returned" /\ ret = "res")

\* perform returned the record after a failed readback
C7_Witness ==
  /\ pc = "returned"
  /\ ret = "res"
  /\ res.error = CURLE_NOT_BUILT_IN
  /\ Len(ApiCalls("curl_easy_getinfo")) = 2

\* C8: when curl_easy_perform returns a code other than CURLE_OK, perform has
\* returned with that code as error, curl_easy_perform was called once, no
\* readback was made and status_code, redirect_url, certs, content_type and
\* http_version have the values of a new record.
C8_ExecuteFailure ==
  \A i \in 1..Len(calls) :
    (calls[i].api = "curl_easy_perform" /\ calls[i].ret \in CurlCodes \ {CURLE_OK}) =>
      /\ pc = "returned"
      /\ res.error = calls[i].ret
      /\ Len(ApiCalls("curl_easy_perform")) = 1
      /\ ApiCalls("curl_easy_getinfo") = <<>>
      /\ res.status_code = 0
      /\ res.redirect_url = ""
      /\ res.certs = <<>>
      /\ res.content_type = ""
      /\ res.http_version = ""

\* curl_easy_perform failed after the body collector had been invoked
C8_Witness ==
  /\ pc = "returned"
  /\ res.error = CURLE_NOT_BUILT_IN
  /\ res.body # <<>>
  /\ \E i \in 1..Len(calls) :
       calls[i].api = "curl_easy_perform" /\ calls[i].ret = CURLE_NOT_BUILT_IN

\* the field of the record the k-th readback fills
ReadbackField(k) ==
  CASE k = 1 -> res.status_code
    [] k = 2 -> res.redirect_url
    [] k = 3 -> res.certs
    [] k = 4 -> res.content_type
    [] k = 5 -> res.http_version

\* the value of that field in a new record
ReadbackDefault(k) == IF k = 1 THEN 0 ELSE IF k = 3 THEN <<>> ELSE ""

\* the value of that field once the engine has stored v
ReadbackValue(k, v) ==
  CASE k = 1 -> v
    [] k \in {2, 4} -> IF v.isnull THEN "" ELSE v.data
    [] k = 3 -> CertChain(v)
    [] k = 5 -> HttpVersionString(v)

\* C9: readbacks follow a successful curl_easy_perform, in the order
\* status code, redirect URL, certificate chain, content type, HTTP version; a
\* readback that fails with code E is the last one, perform has returned and
\* error is E; the field of every readback that succeeded holds the value
\* read, every other field has the value of a new record.
C9_ReadbackOrder ==
  LET g == ApiCalls("curl_easy_getinfo")
  IN /\ IsPrefix(OptsOf(g), ReadbackOrder)
     /\ g # <<>> => ExecuteSucceeded
     /\ \A k \in 1..Len(g) :
          g[k].ret # CURLE_OK =>
            k = Len(g) /\ pc = "returned" /\ res.error = g[k].ret
     /\ \A k \in 1..Len(ReadbackOrder) :
          ReadbackField(k) = IF k <= Len(g) /\ g[k].ret = CURLE_OK
                             THEN ReadbackValue(k, g[k].arg)
                             ELSE ReadbackDefault(k)

\* the third readback failed after a status code and a redirect URL were read
C9_Witness ==
  /\ pc = "returned"
  /\ Len(ApiCalls("curl_easy_getinfo")) = 3
  /\ ApiCalls("curl_easy_getinfo")[3].ret = CURLE_NOT_BUILT_IN
  /\ res.error = CURLE_NOT_BUILT_IN
  /\ res.status_code = 200
  /\ res.redirect_url = "http://example.org/r"
  /\ res.certs = <<>>

\* C10: when curl_easy_perform and all five readbacks succeeded, perform
\* returns next, and on return logs holds exactly one success line, which is
\* the last line of logs.
C10_SuccessLineLast ==
  AllReadbacksSucceeded =>
    /\ ExecuteSucceeded
    /\ pc \in {"success", "returned"}
    /\ pc = "returned" =>
         /\ CountLines({SuccessLine}) = 1
         /\ LastLineIn({SuccessLine})
         /\ CountLines(FailureLines) = 0

\* a transaction succeeded after the transcript collector had logged a line
C10_Witness ==
  /\ pc = "returned"
  /\ AllReadbacksSucceeded
  /\ Len(res.logs) > 5
  /\ res.logs[Len(res.logs) - 1] = "curl_easy_perform() success"
  /\ res.logs[Len(res.logs) - 6] = "*"

(***************************************************************************)
(* The callbacks.                                                          *)
(***************************************************************************)
Last(evs) == evs[Len(evs)]

IsBodyCall(e) == e.cb = "mkcurl_body_cb"

IsDebugCall(e) == e.cb = "mkcurl_debug_cb"

\* a body-collector call with non-null pointers, a positive element count
\* and a size that does not overflow
NormalChunk(e) ==
  /\ IsBodyCall(e)
  /\ ~e.data.isnull
  /\ e.userdata # "NULL"
  /\ e.nmemb > 0
  /\ e.size * e.nmemb <= SIZE_MAX

\* the first size * nmemb bytes of every such call, in order of arrival
RECURSIVE ChunksInOrder(_, _)
ChunksInOrder(evs, k) ==
  IF k > Len(evs) THEN <<>>
  ELSE (IF NormalChunk(evs[k])
        THEN SubSeq(evs[k].data.data, 1, evs[k].size * evs[k].nmemb)
        ELSE <<>>) \o ChunksInOrder(evs, k + 1)

C12_OverflowRejected ==
  [][(events' # events /\ IsBodyCall(Last(events'))
        /\ Last(events').nmemb > 0
        /\ Last(events').size * Last(events').nmemb > SIZE_MAX)
       => (/\ ~Last(events').aborted
           /\ Last(events').ret = 0
           /\ res'.body = res.body
           /\ pc' = pc)]_vars

\* a chunk was stored, then a call came whose product wraps to a small
\* positive number of bytes that its buffer holds
C12_Witness ==
  /\ Len(events) = 2
  /\ NormalChunk(events[1])
  /\ IsBodyCall(events[2]) /\ events[2].nmemb > 0
  /\ events[2].size * events[2].nmemb > SIZE_MAX
  /\ ToSize(events[2].size * events[2].nmemb) \in 1..Len(events[2].data.data)
  /\ events[2].ret = 0
  /\ res.body = <<"b", "o">>

\* C13: a body-collector call with element count zero returns zero and
\* changes nothing in the response record, for every size and also when the
\* data pointer or the record pointer is null.
C13_ZeroCount ==
  [][(events' # events /\ IsBodyCall(Last(events'))
        /\ Last(events').nmemb = 0)
       => (/\ ~Last(events').aborted
           /\ Last(events').ret = 0
           /\ res' = res
           /\ pc' = pc)]_vars

\* after a stored chunk a call with count zero and both pointers null
\* returned zero, and the transfer goes on
C13_Witness ==
  /\ Len(events) = 2
  /\ NormalChunk(events[1])
  /\ IsBodyCall(events[2]) /\ events[2].nmemb = 0 /\ events[2].size > 0
  /\ events[2].data.isnull /\ events[2].userdata = "NULL"
  /\ events[2].ret = 0
  /\ res.body # <<>>
  /\ pc = "performing"

Inbound == {"CURLINFO_HEADER_IN", "CURLINFO_DATA_IN", "CURLINFO_SSL_DATA_IN"}

Outbound ==
  {"CURLINFO_HEADER_OUT", "CURLINFO_DATA_OUT", "CURLINFO_SSL_DATA_OUT"}

\* a transcript-collector call that returned
DebugEvent(e) == IsDebugCall(e) /\ ~e.aborted

\* the sizes of the events of the given kinds, added up
RECURSIVE SumSizes(_, _, _)
SumSizes(evs, k, types) ==
  IF k > Len(evs) THEN 0
  ELSE (IF DebugEvent(evs[k]) /\ evs[k].type \in types THEN evs[k].size ELSE 0)
         + SumSizes(evs, k + 1, types)

\* C14: bytes_sent is the sum of the sizes of the header-out, data-out and
\* tls-data-out events so far and bytes_recv the sum of the sizes of the
\* header-in, data-in and tls-data-in events; a text or end event changes
\* neither, an inbound event leaves bytes_sent alone, an outbound event
\* leaves bytes_recv alone, and neither total ever decreases.
C14_ByteCounts ==
  /\ [](/\ res.bytes_sent = SumSizes(events, 1, Outbound)
        /\ res.bytes_recv = SumSizes(events, 1, Inbound))
  /\ [][/\ res'.bytes_sent >= res.bytes_sent
         /\ res'.bytes_recv >= res.bytes_recv
         /\ (events' # events /\ IsDebugCall(Last(events'))) =>
              /\ Last(events').type \in {"CURLINFO_TEXT", "CURLINFO_END"} =>
                   /\ res'.bytes_sent = res.bytes_sent
                   /\ res'.bytes_recv = res.bytes_recv
              /\ Last(events').type \in Inbound =>
                   res'.bytes_sent = res.bytes_sent
              /\ Last(events').type \in Outbound =>
                   res'.bytes_recv = res.bytes_recv]_vars

\* request headers went out and a TLS record came in
C14_Witness ==
  /\ Len(events) = 2
  /\ DebugEvent(events[1]) /\ events[1].type = "CURLINFO_HEADER_OUT"
  /\ DebugEvent(events[2]) /\ events[2].type = "CURLINFO_SSL_DATA_IN"
  /\ res.bytes_sent = events[1].size /\ events[1].size > 0
  /\ res.bytes_recv = events[2].size /\ events[2].size > 0

\* the first size bytes of every event of the given kind, in order of arrival
RECURSIVE PayloadsInOrder(_, _, _)
PayloadsInOrder(evs, k, type) ==
  IF k > Len(evs) THEN <<>>
  ELSE (IF DebugEvent(evs[k]) /\ evs[k].type = type
        THEN SubSeq(evs[k].data.data, 1, evs[k].size)
        ELSE <<>>) \o PayloadsInOrder(evs, k + 1, type)

\* C15: at every point of a transaction request_headers is the concatenation,
\* in order of arrival, of the payloads of the header-out events and
\* response_headers that of the header-in events; events of other kinds,
\* body-collector calls and the steps of perform (options, execute,
\* readbacks) change neither field.
C15_HeadersAreConcatenation ==
  /\ [](/\ res.request_headers = PayloadsInOrder(events, 1, "CURLINFO_HEADER_OUT")
        /\ res.response_headers = PayloadsInOrder(events, 1, "CURLINFO_HEADER_IN"))
  /\ [][(events' = events
           \/ ~DebugEvent(Last(events'))
           \/ Last(events').type \notin {"CURLINFO_HEADER_OUT", "CURLINFO_HEADER_IN"})
         => /\ res'.request_headers = res.request_headers
            /\ res'.response_headers = res.response_headers]_vars

\* a transaction that succeeded after a header-out and a header-in event,
\* the latter from a buffer longer than the event
C15_Witness ==
  /\ pc = "returned"
  /\ res.error = CURLE_OK
  /\ Len(events) = 2
  /\ events[1].type = "CURLINFO_HEADER_OUT"
  /\ events[2].type = "CURLINFO_HEADER_IN"
  /\ Len(events[2].data.data) > events[2].size
  /\ res.request_headers = <<"G", "\r", LF>>
  /\ res.response_headers = <<"K", LF>>

\* the kinds of event whose payload is written to the logs
Echoed == {"CURLINFO_TEXT", "CURLINFO_HEADER_IN", "CURLINFO_HEADER_OUT"}

\* the position of the k-th line feed of p: 0 for k = 0, one past the end of
\* p when p has fewer than k line feeds
NthLF(p, k) ==
  IF k = 0 THEN 0
  ELSE IF Cardinality({i \in 1..Len(p) : p[i] = LF}) < k THEN Len(p) + 1
  ELSE CHOOSE i \in 1..Len(p) :
         p[i] = LF /\ Cardinality({j \in 1..i : p[j] = LF}) = k

\* the line-feed-delimited segments of p: one for each line feed and one
\* more for what follows the last line feed, if anything does
SegmentCount(p) ==
  Cardinality({i \in 1..Len(p) : p[i] = LF})
    + (IF p # <<>> /\ p[Len(p)] # LF THEN 1 ELSE 0)

Segment(p, k) == SubSeq(p, NthLF(p, k - 1) + 1, NthLF(p, k) - 1)

\* the log lines of the segments k.. of p, each with its prefix and stamp
RECURSIVE SegmentLines(_, _, _, _)
SegmentLines(prefix, p, ts, k) ==
  IF k > SegmentCount(p) THEN <<>>
  ELSE <<"[", ToString(ts[k]), "] ">> \o prefix \o Segment(p, k) \o <<LF>>
         \o SegmentLines(prefix, p, ts, k + 1)

\* C16: a text, header-in or header-out event appends to the logs one
\* line-feed-terminated line per line-feed-delimited segment of its payload,
\* in order: what follows the last line feed is a line of its own, a payload
\* that ends in a line feed gets no empty line after it, and an empty payload
\* gets no line.
C16_OneLinePerSegment ==
  [][(events' # events /\ DebugEvent(Last(events'))
        /\ Last(events').type \in Echoed)
       => LET e == Last(events')
              p == SubSeq(e.data.data, 1, e.size)
          IN /\ Len(e.ts) = SegmentCount(p)
             /\ res'.logs =
                  res.logs \o SegmentLines(IF e.type = "CURLINFO_TEXT" THEN <<>>
                                           ELSE <<DebugPrefix(e.type), " ">>,
                                           p, e.ts, 1)]_vars

\* a text event of three segments, the second empty and the third without a
\* line feed, after a header event that ends in a line feed
C16_Witness ==
  /\ Len(events) = 2
  /\ events[1].type = "CURLINFO_HEADER_OUT"
  /\ events[2].type = "CURLINFO_TEXT"
  /\ res.logs = <<"[", "0", "] ", ">", " ", "G", "\r", LF,
                  "[", "0", "] ", "a", LF,
                  "[", "0", "] ", LF,
                  "[", "1", "] ", "b", LF>>

\* the kinds of event that carry body or TLS bytes
DataKinds == {"CURLINFO_DATA_IN", "CURLINFO_DATA_OUT", "CURLINFO_SSL_DATA_IN",
              "CURLINFO_SSL_DATA_OUT"}

\* the stream of events with the payload of every data and TLS event removed
Erase(evs) ==
  [k \in 1..Len(evs) |->
     IF IsDebugCall(evs[k]) /\ evs[k].type \in DataKinds
     THEN [evs[k] EXCEPT !.data = Ptr(<<>>)]
     ELSE evs[k]]

\* the logs a stream of events leaves, read off kinds, sizes, stamps and the
\* payloads of text and header events
RECURSIVE Transcript(_, _)
Transcript(evs, k) ==
  IF k > Len(evs) THEN <<>>
  ELSE (IF ~DebugEvent(evs[k]) THEN <<>>
        ELSE IF evs[k].type \in Echoed
        THEN SegmentLines(IF evs[k].type = "CURLINFO_TEXT" THEN <<>>
                          ELSE <<DebugPrefix(evs[k].type), " ">>,
                          SubSeq(evs[k].data.data, 1, evs[k].size), evs[k].ts, 1)
        ELSE IF evs[k].type \in DataKinds
        THEN <<"[", ToString(evs[k].ts[1]), "] ", DebugPrefix(evs[k].type), " ",
               ToString(evs[k].size), LF>>
        ELSE <<>>) \o Transcript(evs, k + 1)

LineFeeds(logs) == Cardinality({k \in 1..Len(logs) : logs[k] = LF})

\* C17: the logs are determined by the stream of events with the payloads of
\* its data-in, data-out, tls-data-in and tls-data-out events removed (and
\* the clock readings), so two streams that differ only in those payloads
\* leave the same logs up to timestamps; each such event adds exactly one
\* line to the logs.
C17_PayloadNotLogged ==
  /\ [](res.logs = Transcript(Erase(events), 1))
  /\ [][(events' # events /\ DebugEvent(Last(events'))
           /\ Last(events').type \in DataKinds)
         => /\ IsPrefix(res.logs, res'.logs)
            /\ LineFeeds(res'.logs) = LineFeeds(res.logs) + 1
            /\ res'.logs[Len(res'.logs)] = LF]_vars

\* a data-in event and a tls-data-out event, both with a payload, left two
\* lines that hold the sizes only
C17_Witness ==
  /\ Len(events) = 2
  /\ events[1].type = "CURLINFO_DATA_IN"
  /\ events[1].data.data = <<"t", "o", "p">>
  /\ events[2].type = "CURLINFO_SSL_DATA_OUT"
  /\ events[2].data.data # <<>>
  /\ LineFeeds(res.logs) = 2
  /\ \A k \in 1..Len(res.logs) : res.logs[k] \notin {"t", "o", "p"}

\* sub occurs in logs
Contains(logs, sub) ==
  \E k \in 0..(Len(logs) - Len(sub)) : SubSeq(logs, k + 1, k + Len(sub)) = sub

\* sub occurs in logs right after a timestamp
ContainsStamped(logs, sub) ==
  \E t \in 0..MaxClock : Contains(logs, <<"[", ToString(t), "] ">> \o sub)

DebugCalls == SelectSeq(events, IsDebugCall)

\* the transcript collector was called twice: with a header-in event that
\* carries one line ended by a line feed, then with a data-in event
HeaderThenData ==
  /\ Len(DebugCalls) = 2
  /\ DebugEvent(DebugCalls[1]) /\ DebugCalls[1].type = "CURLINFO_HEADER_IN"
  /\ DebugCalls[1].size > 1
  /\ NthLF(DebugCalls[1].data.data, 1) = DebugCalls[1].size
  /\ DebugEvent(DebugCalls[2]) /\ DebugCalls[2].type = "CURLINFO_DATA_IN"

\* C18 as stated: the line for the data event is the label immediately
\* followed by the byte count.
C18_AsStated ==
  HeaderThenData =>
    LET h == SubSeq(DebugCalls[1].data.data, 1, DebugCalls[1].size)
        n == DebugCalls[2].size
    IN /\ res.response_headers = h
       /\ ContainsStamped(res.logs, <<"<", " ">> \o h)
       /\ Contains(res.logs, <<"<data:", ToString(n), LF>>)
       /\ res.bytes_recv = Len(h) + n

\* C18: in a transaction with one header-in event that carries one status
\* line, followed by a data-in event of n bytes, response_headers is the
\* header line, the logs hold a timestamped line "< " and the status line
\* and a timestamped line made of the label "<data:", one space and n, and
\* bytes_recv is the length of the header line plus n.
C18_HeaderThenData ==
  HeaderThenData =>
    LET h == SubSeq(DebugCalls[1].data.data, 1, DebugCalls[1].size)
        n == DebugCalls[2].size
    IN /\ res.response_headers = h
       /\ ContainsStamped(res.logs, <<"<", " ">> \o h)
       /\ ContainsStamped(res.logs, <<"<data:", " ", ToString(n), LF>>)
       /\ res.bytes_recv = Len(h) + n

\* such a transaction succeeded
C18_Witness ==
  /\ HeaderThenData
  /\ DebugCalls[1].data.data = <<"H", "\r", LF>>
  /\ DebugCalls[2].size = 3
  /\ res.bytes_recv = 6
  /\ pc = "returned"
  /\ res.error = CURLE_OK

(***************************************************************************)
(* The timeout and the upload.                                             *)
(***************************************************************************)
\* the timeout the documentation of mkcurl_request_set_timeout_v2 promises
ClampedTimeout(t) ==
  IF t < 0 THEN 0 ELSE IF t >= LONG_MAX THEN LONG_MAX ELSE t

\* C19: mkcurl_request_set_timeout_v2 stores 0 for a negative timeout,
\* LONG_MAX for a timeout of LONG_MAX or more and the timeout itself
\* otherwise, so what is stored is never a wrapped value; the argument of
\* CURLOPT_TIMEOUT is the stored value.
C19_TimeoutClamped ==
  /\ [][\A t \in TimeoutRange :
          mkcurl_request_set_timeout_v2(t) => req'.timeout = ClampedTimeout(t)]_vars
  /\ [](req.timeout \in 0..LONG_MAX)
  /\ [](\A k \in 1..Len(calls) :
          (calls[k].api = "curl_easy_setopt" /\ calls[k].opt = "CURLOPT_TIMEOUT")
            => calls[k].arg = req.timeout)

\* the timeout was clamped to LONG_MAX and the engine accepted it
C19_Witness ==
  /\ req.timeout = LONG_MAX
  /\ \E k \in 1..Len(calls) :
       /\ calls[k].api = "curl_easy_setopt"
       /\ calls[k].opt = "CURLOPT_TIMEOUT"
       /\ calls[k].arg = LONG_MAX
       /\ calls[k].ret = CURLE_OK
  /\ pc = "performing"

\* the options of the upload block, in the order of its statements
UploadOptions ==
  <<"CURLOPT_POST", "CURLOPT_POSTFIELDS", "CURLOPT_POSTFIELDSIZE",
    "CURLOPT_CUSTOMREQUEST">>

UploadCalls ==
  SelectSeq(ApiCalls("curl_easy_setopt"),
            LAMBDA c : \E k \in 1..Len(UploadOptions) : c.opt = UploadOptions[k])

\* C20: for POST and PUT the options of the upload are set in the order
\* CURLOPT_POST, CURLOPT_POSTFIELDS, CURLOPT_POSTFIELDSIZE; the argument of
\* CURLOPT_POSTFIELDSIZE is the number of bytes of the stored body, zero
\* bytes included, and that of CURLOPT_POSTFIELDS the body;
\* CURLOPT_CUSTOMREQUEST "PUT" comes only for PUT and after the size; for
\* GET none of the four is set.
C20_UploadOptions ==
  /\ req.method = "GET" => UploadCalls = <<>>
  /\ req.method = "POST" =>
       IsPrefix(OptsOf(UploadCalls), SubSeq(UploadOptions, 1, 3))
  /\ req.method = "PUT" => IsPrefix(OptsOf(UploadCalls), UploadOptions)
  /\ \A k \in 1..Len(UploadCalls) :
       /\ UploadCalls[k].opt = "CURLOPT_POST" => UploadCalls[k].arg = 1
       /\ UploadCalls[k].opt = "CURLOPT_POSTFIELDS" =>
            UploadCalls[k].arg = req.body
       /\ UploadCalls[k].opt = "CURLOPT_POSTFIELDSIZE" =>
            UploadCalls[k].arg = Len(req.body)
       /\ UploadCalls[k].opt = "CURLOPT_CUSTOMREQUEST" =>
            UploadCalls[k].arg = "PUT"

\* a PUT of three bytes, the second of them zero, with all four options
\* accepted
C20_Witness ==
  /\ req.method = "PUT"
  /\ req.body = <<"a", NUL, "b">>
  /\ OptsOf(UploadCalls) = UploadOptions
  /\ UploadCalls[3].arg = 3
  /\ \A k \in 1..4 : UploadCalls[k].ret = CURLE_OK
  /\ pc = "performing"

(***************************************************************************)
(* Result extraction.                                                      *)
(***************************************************************************)
\* the metadata lines of the certificates i.. of a chain, in order
RECURSIVE SlotLines(_, _)
SlotLines(ci, i) ==
  IF i > ci.num_of_certs THEN <<>>
  ELSE ci.certinfo[i] \o SlotLines(ci, i + 1)

\* the position of the first colon of a line, 0 when it has none
FirstColon(s) ==
  IF \E i \in 1..Len(s) : s[i] = ":"
  THEN CHOOSE i \in 1..Len(s) : s[i] = ":" /\ \A j \in 1..(i - 1) : s[j] # ":"
  ELSE 0

\* a "key:value" line whose key is the key of the certificate data
HasCertDataKey(s) ==
  FirstColon(s) > 0 /\ SubSeq(s, 1, FirstColon(s) - 1) = <<"C", "e", "r", "t">>

\* the value of every such line among lines k.., each followed by a newline
RECURSIVE PemBlocks(_, _)
PemBlocks(lines, k) ==
  IF k > Len(lines) THEN <<>>
  ELSE (IF ~lines[k].isnull /\ HasCertDataKey(lines[k].data)
        THEN SubSeq(lines[k].data, FirstColon(lines[k].data) + 1,
                    Len(lines[k].data)) \o <<LF>>
        ELSE <<>>) \o PemBlocks(lines, k + 1)

\* C21: once curl_easy_getinfo(CURLINFO_CERTINFO) has succeeded, certs is
\* the concatenation, over the certificates in order and over the lines of
\* each in order, of the value of every line whose key is "Cert", each
\* followed by one newline; lines under other keys and null entries add
\* nothing.
C21_CertificateChain ==
  \A k \in 1..Len(calls) :
    (/\ calls[k].api = "curl_easy_getinfo"
     /\ calls[k].opt = "CURLINFO_CERTINFO"
     /\ calls[k].ret = CURLE_OK)
    => res.certs = IF calls[k].arg.isnull THEN <<>>
                   ELSE PemBlocks(SlotLines(calls[k].arg.data, 1), 1)

\* perform succeeded with the chain of two certificates: certs holds the two
\* blocks, each followed by a newline
C21_Witness ==
  /\ pc = "returned"
  /\ res.error = CURLE_OK
  /\ \E k \in 1..Len(calls) :
       /\ calls[k].api = "curl_easy_getinfo"
       /\ calls[k].opt = "CURLINFO_CERTINFO"
       /\ calls[k].arg = TwoCerts
  /\ res.certs = <<"P", "1", LF, "P", "2", LF>>

(***************************************************************************)
(* Transactions of the same request, and of different threads.             *)
(***************************************************************************)
\* logs with the reading of the clock in every "[reading] " replaced
EraseStamps(logs) ==
  [k \in 1..Len(logs) |->
     IF k > 1 /\ k < Len(logs) /\ logs[k - 1] = "[" /\ logs[k + 1] = "] "
     THEN "t" ELSE logs[k]]

\* two records equal in every field, the clock readings in logs apart
SameButStamps(a, b) ==
  [a EXCEPT !.logs = EraseStamps(@)] = [b EXCEPT !.logs = EraseStamps(@)]

\* C22: when perform is called twice with the same request and the engine
\* behaves in the second call as it did in the first, the two records
\* returned are equal in every field, the clock readings in logs apart; no
\* step of perform and no callback changes a field of the request.
C22_PerformTwice ==
  /\ []((parked # <<>> /\ pc = "returned") => SameButStamps(res, parked[1].res))
  /\ [][(pc' # pc \/ calls' # calls \/ events' # events) => req' = req]_vars

\* a PUT with a header returned twice with success after one callback, the
\* two records differing in the clock readings
C22_Witness ==
  /\ parked # <<>>
  /\ pc = "returned"
  /\ req.method = "PUT" /\ Len(req.headers) = 1
  /\ res.error = CURLE_OK
  /\ ExecuteSucceeded
  /\ Len(events) = 1
  /\ res.response_headers # <<>>
  /\ res.logs # parked[1].res.logs
  /\ parked[1].req = req

\* the calls of the transaction t that failed
Failed(t) ==
  SelectSeq(t.calls, LAMBDA c : c.ret \in {"none", SlistRet(FALSE)}
                                  \/ c.ret \in CurlCodes \ {CURLE_OK})

\* the line perform logs before it returns from the transaction t
LastLine(t) ==
  IF Failed(t) = <<>>
  THEN IF \E k \in 1..Len(t.calls) : t.calls[k].api = "curl_easy_perform"
       THEN "curl_easy_perform() success"
       ELSE "Body larger than LONG_MAX"
  ELSE CASE Failed(t)[1].api = "curl_easy_setopt" -> SetoptMsg(Failed(t)[1].opt)
         [] Failed(t)[1].api = "curl_easy_getinfo" ->
              "curl_easy_getinfo(" \o Failed(t)[1].opt \o ") failed"
         [] OTHER -> Failed(t)[1].api \o "() failed"

\* the record a transaction returns, read off what the engine answered and
\* passed to the callbacks in that transaction alone
RecordOf(t) ==
  LET g == SelectSeq(t.calls, LAMBDA c : c.api = "curl_easy_getinfo")
      read(k) == IF k <= Len(g) /\ g[k].ret = CURLE_OK
                 THEN ReadbackValue(k, g[k].arg) ELSE ReadbackDefault(k)
  IN [error |-> IF Failed(t) = <<>> THEN CURLE_OK
                ELSE IF Failed(t)[1].api \in {"curl_easy_init", "curl_slist_append"}
                THEN CURLE_OUT_OF_MEMORY ELSE Failed(t)[1].ret,
      redirect_url |-> read(2),
      status_code |-> read(1),
      body |-> ChunksInOrder(t.events, 1),
      bytes_sent |-> SumSizes(t.events, 1, Outbound),
      bytes_recv |-> SumSizes(t.events, 1, Inbound),
      logs |-> mkcurl_log(Transcript(t.events, 1), <<LastLine(t)>>, 0),
      request_headers |-> PayloadsInOrder(t.events, 1, "CURLINFO_HEADER_OUT"),
      response_headers |-> PayloadsInOrder(t.events, 1, "CURLINFO_HEADER_IN"),
      certs |-> read(3),
      content_type |-> read(4),
      http_version |-> read(5)]

\* every transaction that returned gave the record that follows from what
\* the engine did in it
RecordsFollow ==
  \A t \in {Running} \cup {parked[k] : k \in 1..Len(parked)} :
    t.pc = "returned" => SameButStamps(t.res, RecordOf(t))

\* C23: when two threads each perform a transaction with a request, handle,
\* lists and record of their own, then however their steps and callbacks
\* are interleaved, every record returned is the record that follows from
\* what the engine did in that transaction, as it is when the transaction
\* runs alone; a step or callback of one transaction leaves everything that
\* belongs to the other as it was.
C23_Independent ==
  /\ []RecordsFollow
  /\ [][parked' = parked \/ (parked' = <<Running>> /\ Running' = parked[1])]_vars

\* both transactions succeeded, each after a callback of its own
C23_Witness ==
  /\ parked # <<>>
  /\ pc = "returned" /\ parked[1].pc = "returned"
  /\ req = RequestOfSecond /\ parked[1].req = RequestOfFirst
  /\ res.error = CURLE_OK /\ parked[1].res.error = CURLE_OK
  /\ Len(events) = 1 /\ IsBodyCall(events[1]) /\ res.body # <<>>
  /\ Len(parked[1].events) = 1 /\ IsDebugCall(parked[1].events[1])
  /\ parked[1].res.response_headers # <<>> /\ parked[1].res.body = <<>>
  /\ res.logs # parked[1].res.logs

(***************************************************************************)
(* C24: null arguments of the transcript collector.                        *)
(***************************************************************************)
\* the last invocation was of mkcurl_debug_cb with a null data or userptr
NullDebugCall(e) ==
  IsDebugCall(e) /\ (e.data.isnull \/ e.userdata = "NULL")

\* C24: an invocation of the transcript collector with a null payload
\* pointer or a null response handle aborts the process, whatever the kind
\* of the event, and leaves every field of the request and of the response
\* record, and the clock, as they were.
C24_NullDebugAborts ==
  [][(events' # events /\ NullDebugCall(Last(events')))
       => /\ Last(events').aborted
          /\ pc' = "aborted"
          /\ res' = res /\ req' = req /\ clock' = clock
          /\ cbret' = cbret]_vars

\* the end-of-transaction marker came with a null payload pointer after an
\* event that was logged
C24_Witness ==
  /\ Len(events) = 2
  /\ IsDebugCall(events[2]) /\ events[2].type = "CURLINFO_END"
  /\ events[2].data.isnull /\ events[2].userdata = "res"
  /\ pc = "aborted"
  /\ res.logs # <<>>

(***************************************************************************)
(* C25: null pointers at the public boundary.                              *)
(***************************************************************************)
\* C25: a call of a setter, of perform or of an accessor with a null
\* request, record or other pointer argument aborts the process and leaves
\* every field of the request and of the record as it was; no call that
\* was passed a null pointer returns.
C25_NullAborts ==
  /\ []((outcome # <<>> /\ ~outcome[1].aborted) => outcome[1].nulls = {})
  /\ [][(outcome' # outcome /\ outcome'[1].nulls # {})
          => /\ outcome'[1].aborted
             /\ pc' = "aborted"
             /\ req' = req /\ res' = res /\ ret' = ret]_vars

\* the accessor of the logs was called on a record with logs and aborted
\* because the pointer for the length was null
C25_Witness ==
  /\ outcome # <<>>
  /\ outcome[1].fn = "mkcurl_response_get_logs_binary_v3"
  /\ outcome[1].nulls = {"n"}
  /\ outcome[1].aborted
  /\ pc = "aborted"
  /\ ret = "res"
  /\ res.logs # <<>>

(***************************************************************************)
(* C26: the connect-to address.                                            *)
(***************************************************************************)
\* the append of the connect-to entry and the option that hands it over
ConnectToAppend(c) ==
  c.api = "curl_slist_append" /\ c.opt = "connect_to_settings"

ConnectToOption(c) ==
  c.api = "curl_easy_setopt" /\ c.opt = "CURLOPT_CONNECT_TO"

\* C26 as stated: a failure of the append or of the option ends perform
\* with error out-of-memory.
C26_AsStated ==
  \A i \in 1..Len(calls) :
    (\/ ConnectToAppend(calls[i]) /\ calls[i].ret = "NULL"
     \/ ConnectToOption(calls[i]) /\ calls[i].ret # CURLE_OK) =>
      /\ pc = "returned"
      /\ res.error = CURLE_OUT_OF_MEMORY

\* C26: with a connect-to address set, a failed append of the entry ends
\* perform with error out-of-memory and a rejected CURLOPT_CONNECT_TO ends
\* it with the code the engine gave; with no address set, neither the
\* append nor the option call is made.
C26_ConnectTo ==
  /\ \A i \in 1..Len(calls) :
       /\ (ConnectToAppend(calls[i]) /\ calls[i].ret = "NULL") =>
            /\ pc = "returned"
            /\ res.error = CURLE_OUT_OF_MEMORY
       /\ (ConnectToOption(calls[i]) /\ calls[i].ret # CURLE_OK) =>
            /\ pc = "returned"
            /\ res.error = calls[i].ret
  /\ req.connect_to = "" =>
       \A i \in 1..Len(calls) :
         ~ConnectToAppend(calls[i]) /\ ~ConnectToOption(calls[i])

\* the engine did not know CURLOPT_CONNECT_TO
C26_Witness ==
  /\ pc = "returned"
  /\ req.connect_to # ""
  /\ \E i \in 1..Len(calls) :
       ConnectToOption(calls[i]) /\ calls[i].ret = CURLE_NOT_BUILT_IN
  /\ res.error = CURLE_NOT_BUILT_IN

(***************************************************************************)
(* C27: the header list.                                                   *)
(***************************************************************************)
\* the headers of the request as added, then "Expect:" for POST and PUT
ExpectedHeaders ==
  req.headers \o (IF req.method \in {"POST", "PUT"} THEN <<"Expect:">> ELSE <<>>)

HeaderOption(c) == c.api = "curl_easy_setopt" /\ c.opt = "CURLOPT_HTTPHEADER"

\* C27: the list passed with CURLOPT_HTTPHEADER is the headers of the
\* request in the order added, duplicates kept, followed by one "Expect:"
\* entry exactly when the method is POST or PUT; once perform is past the
\* header step (it has set the URL), CURLOPT_HTTPHEADER was set exactly
\* when that list is not empty; a GET request with no header and no
\* connect-to address makes no curl_slist_append call.
C27_HeaderList ==
  /\ \A i \in 1..Len(calls) :
       HeaderOption(calls[i]) => calls[i].arg = ExpectedHeaders
  /\ (\E i \in 1..Len(calls) :
        calls[i].api = "curl_easy_setopt" /\ calls[i].opt = "CURLOPT_URL")
       => ((\E i \in 1..Len(calls) : HeaderOption(calls[i]))
             <=> ExpectedHeaders # <<>>)
  /\ (req.method = "GET" /\ req.headers = <<>> /\ req.connect_to = "")
       => \A i \in 1..Len(calls) : calls[i].api # "curl_slist_append"

\* a POST with one header reached curl_easy_perform
C27_Witness ==
  /\ pc = "performing"
  /\ req.method = "POST"
  /\ Len(req.headers) = 1
  /\ \E i \in 1..Len(calls) :
       HeaderOption(calls[i]) /\ calls[i].arg = <<req.headers[1], "Expect:">>

(***************************************************************************)
(* C28: the timeout is always applied.                                     *)
(***************************************************************************)
TimeoutOption(c) == c.api = "curl_easy_setopt" /\ c.opt = "CURLOPT_TIMEOUT"

\* the statement before the timeout step was accepted by the engine
ReachedTimeoutStep(i) ==
  /\ calls[i].api = "curl_easy_setopt"
  /\ calls[i].opt = "CURLOPT_NOSIGNAL"
  /\ calls[i].ret = CURLE_OK

\* C28: the timeout of a new request is 30 and no setter but the one of
\* the timeout changes it; after any setter calls it lies in 0..LONG_MAX;
\* a perform that gets past CURLOPT_NOSIGNAL makes CURLOPT_TIMEOUT, with
\* the stored timeout, its next engine call; and when the engine rejects
\* that option perform returns with the engine's code as the error.
C28_TimeoutApplied ==
  /\ req.timeout = 30
  /\ [][req'.timeout # req.timeout
          => (pc = "new" /\ req' = [req EXCEPT !.timeout = req'.timeout])]_vars
  /\ [](req.timeout \in 0..LONG_MAX)
  /\ [](\A i \in 1..Len(calls) :
          /\ ReachedTimeoutStep(i) => pc = "CURLOPT_TIMEOUT" \/ Len(calls) > i
          /\ (ReachedTimeoutStep(i) /\ Len(calls) > i)
               => (TimeoutOption(calls[i + 1]) /\ calls[i + 1].arg = req.timeout)
          /\ (TimeoutOption(calls[i]) /\ calls[i].ret # CURLE_OK)
               => (pc = "returned" /\ res.error = calls[i].ret))

\* a timeout set to a negative number was stored as zero, handed to the
\* engine and rejected by it
C28_Witness ==
  /\ pc = "returned"
  /\ req.timeout = 0
  /\ \E i \in 1..Len(calls) :
       /\ TimeoutOption(calls[i])
       /\ calls[i].arg = 0
       /\ calls[i].ret = CURLE_NOT_BUILT_IN
  /\ res.error = CURLE_NOT_BUILT_IN

(***************************************************************************)
(* C29: what has been set when curl_easy_perform is called.                *)
(***************************************************************************)
\* the options perform sets for every request
AlwaysSet ==
  {"CURLOPT_URL", "CURLOPT_WRITEFUNCTION", "CURLOPT_WRITEDATA",
   "CURLOPT_NOSIGNAL", "CURLOPT_TIMEOUT", "CURLOPT_DEBUGFUNCTION",
   "CURLOPT_DEBUGDATA", "CURLOPT_VERBOSE", "CURLOPT_CERTINFO"}

\* the options perform sets when the request asks for them
SetOnRequest ==
  {"CURLOPT_CONNECT_TO", "CURLOPT_TCP_FASTOPEN", "CURLOPT_CAINFO",
   "CURLOPT_HTTP_VERSION", "CURLOPT_PROXY", "CURLOPT_FOLLOWLOCATION"}

Configures(opt) ==
  CASE opt = "CURLOPT_CONNECT_TO" -> req.connect_to # ""
    [] opt = "CURLOPT_TCP_FASTOPEN" -> req.enable_fastopen
    [] opt = "CURLOPT_CAINFO" -> req.ca_path # ""
    [] opt = "CURLOPT_HTTP_VERSION" -> req.enable_http2
    [] opt = "CURLOPT_PROXY" -> req.proxy_url # ""
    [] opt = "CURLOPT_FOLLOWLOCATION" -> req.follow_redir

\* the calls that set the option opt, and those the engine accepted
SetoptCalls(opt) ==
  SelectSeq(calls, LAMBDA c : c.api = "curl_easy_setopt" /\ c.opt = opt)

AcceptedOnce(opt) ==
  Len(SetoptCalls(opt)) = 1 /\ SetoptCalls(opt)[1].ret = CURLE_OK

\* C29: when curl_easy_perform has been called, the URL, the body callback
\* and its data, CURLOPT_NOSIGNAL, the timeout, the debug callback and its
\* data, CURLOPT_VERBOSE and CURLOPT_CERTINFO have each been set once and
\* accepted; connect-to, fast open, CA bundle, HTTP/2, proxy and
\* follow-redirect have each been set once and accepted when the request
\* asks for them and not set at all when it does not.
C29_SetBeforePerform ==
  (\E i \in 1..Len(calls) : calls[i].api = "curl_easy_perform") =>
    /\ \A opt \in AlwaysSet : AcceptedOnce(opt)
    /\ \A opt \in SetOnRequest :
         IF Configures(opt) THEN AcceptedOnce(opt) ELSE SetoptCalls(opt) = <<>>

\* the engine is performing a request with a proxy that follows redirects
C29_Witness ==
  /\ pc = "performing"
  /\ req.proxy_url # "" /\ req.follow_redir
  /\ AcceptedOnce("CURLOPT_PROXY") /\ AcceptedOnce("CURLOPT_FOLLOWLOCATION")
  /\ SetoptCalls("CURLOPT_CAINFO") = <<>>

(***************************************************************************)
(* C30: what the callbacks leave alone.                                    *)
(***************************************************************************)
\* C30: an invocation of the body callback changes no field of the record
\* but body, and an invocation of the debug callback none but logs,
\* request_headers, response_headers, bytes_sent and bytes_recv; so error,
\* status_code, redirect_url, certs, content_type and http_version are
\* changed by neither, and bytes_recv not by the body callback. The
\* request is changed by neither.
C30_CallbackFrame ==
  [][(events' # events) =>
       /\ IsBodyCall(Last(events')) => res' = [res EXCEPT !.body = res'.body]
       /\ IsDebugCall(Last(events')) =>
            res' = [res EXCEPT !.logs = res'.logs,
                               !.request_headers = res'.request_headers,
                               !.response_headers = res'.response_headers,
                               !.bytes_sent = res'.bytes_sent,
                               !.bytes_recv = res'.bytes_recv]
       /\ req' = req]_vars

\* a chunk of the body was stored, then a header of the response was
\* logged, kept and counted
C30_Witness ==
  /\ Len(events) = 2
  /\ IsBodyCall(events[1]) /\ res.body # <<>>
  /\ IsDebugCall(events[2]) /\ events[2].type = "CURLINFO_HEADER_IN"
  /\ res.response_headers # <<>> /\ res.logs # <<>> /\ res.bytes_recv > 0
  /\ res.bytes_sent = 0

(***************************************************************************)
(* C31: the HTTP version.                                                  *)
(***************************************************************************)
\* the readback of the HTTP version was made and succeeded
VersionRead ==
  LET g == ApiCalls("curl_easy_getinfo")
  IN Len(g) = 5 /\ g[5].opt = "CURLINFO_HTTP_VERSION" /\ g[5].ret = CURLE_OK

\* C31: http_version is "HTTP/1.0", "HTTP/1.1", "HTTP/2" or empty; once
\* the readback of the version has succeeded it is the string of the value
\* the engine stored when that is CURL_HTTP_VERSION_1_0, _1_1 or _2_0 and
\* empty for every other value; as long as that readback has not succeeded,
\* and on every return before it, it is empty.
C31_HttpVersion ==
  /\ res.http_version \in {"HTTP/1.0", "HTTP/1.1", "HTTP/2", ""}
  /\ VersionRead =>
       LET v == ApiCalls("curl_easy_getinfo")[5].arg
       IN /\ v = CURL_HTTP_VERSION_1_0 => res.http_version = "HTTP/1.0"
          /\ v = CURL_HTTP_VERSION_1_1 => res.http_version = "HTTP/1.1"
          /\ v = CURL_HTTP_VERSION_2_0 => res.http_version = "HTTP/2"
          /\ v \notin {CURL_HTTP_VERSION_1_0, CURL_HTTP_VERSION_1_1,
                        CURL_HTTP_VERSION_2_0} => res.http_version = ""
  /\ ~VersionRead => res.http_version = ""

\* perform returned after the engine stored CURL_HTTP_VERSION_2_0
C31_Witness ==
  /\ pc = "returned"
  /\ VersionRead
  /\ ApiCalls("curl_easy_getinfo")[5].arg = CURL_HTTP_VERSION_2_0
  /\ res.http_version = "HTTP/2"
  /\ res.error = CURLE_OK

(***************************************************************************)
(* C32: elements of size zero.                                             *)
(***************************************************************************)
\* C32: a body-collector call with element size zero and a positive
\* element count takes the rejecting branch: it returns 0 and leaves the
\* body as it was.
C32_ZeroSizeRejected ==
  [][(events' # events /\ IsBodyCall(Last(events'))
        /\ Last(events').size = 0
        /\ Last(events').nmemb > 0)
       => (/\ ~Last(events').aborted
           /\ Last(events').ret = 0
           /\ res'.body = res.body
           /\ pc' = pc)]_vars

\* a call with two elements of size zero returned 2
C32_Witness ==
  /\ Len(events) = 1
  /\ IsBodyCall(events[1])
  /\ events[1].size = 0 /\ events[1].nmemb = 2
  /\ ~events[1].data.isnull /\ events[1].userdata = "res"
  /\ ~events[1].aborted
  /\ events[1].ret = 2
  /\ cbret = 2
  /\ res.body = <<>>

(***************************************************************************)
(* C33: what perform releases.                                             *)
(***************************************************************************)
Lists == {"headers", "connect_to_settings"}

\* the entries the engine has linked into the list: curl_slist_append leaves
\* the list as it was when it returns NULL
Built(list) ==
  LET ok == SelectSeq(calls, LAMBDA c : /\ c.api = "curl_slist_append"
                                        /\ c.opt = list
                                        /\ c.ret = "list")
  IN [k \in 1..Len(ok) |-> ok[k].arg]

\* the lists handed to curl_slist_free_all for `list`
Freed(list) ==
  LET fr == SelectSeq(calls, LAMBDA c : /\ c.api = "curl_slist_free_all"
                                        /\ c.opt = list)
  IN [k \in 1..Len(fr) |-> fr[k].arg]

Releases == {"curl_slist_free_all", "curl_easy_cleanup"}

\* C33: when perform has returned, a handle that was created has been
\* cleaned up exactly once, and each of the two lists that holds entries
\* has been freed exactly once, whole; no list is freed and no handle
\* cleaned up before perform returns, so none before curl_easy_perform has
\* returned; when curl_easy_init failed nothing is released.
C33_ReleasedOnce ==
  /\ pc # "returned" =>
       \A i \in 1..Len(calls) : calls[i].api \notin Releases
  /\ pc = "returned" =>
       /\ Len(ApiCalls("curl_easy_cleanup"))
            = (IF calls[1].ret = "live" THEN 1 ELSE 0)
       /\ \A list \in Lists :
            /\ Len(Freed(list)) <= 1
            /\ Built(list) # <<>> => Freed(list) = <<Built(list)>>
       /\ \A i \in 1..Len(calls), j \in 1..Len(calls) :
            (calls[i].api = "curl_easy_perform" /\ calls[j].api \in Releases)
              => (i < j /\ calls[i].ret # "running")
       /\ calls[1].ret = "none" =>
            \A i \in 1..Len(calls) : calls[i].api \notin Releases

\* the append of the second header failed: the list holding the first is
\* not the one freed
C33_Witness ==
  /\ pc = "returned"
  /\ Len(req.headers) = 2
  /\ Built("headers") = <<req.headers[1]>>
  /\ Freed("headers") = << <<>> >>
  /\ Len(ApiCalls("curl_easy_cleanup")) = 1
====
